---- MODULE Spec2Model ----
(***************************************************************************)
(* A model of the spreadsheet table core of files2olf: the coordinate      *)
(* codec, the merged-cell index, header-depth inference, header paths,     *)
(* the flat and nested JSON projections, the markdown renderer and the     *)
(* per-sheet orchestration of parseXlsx.                                   *)
(*                                                                         *)
(* Strings that the code parses (cell addresses, merge references) are     *)
(* sequences of one-character strings; strings that the code only builds   *)
(* and compares (labels, JSON keys, markdown) are TLA+ strings.            *)
(***************************************************************************)
EXTENDS Integers, Sequences, FiniteSets, TLC

VARIABLES codec, lookup, md, sheet, wb

vars == <<codec, lookup, md, sheet, wb>>

(* A component that a specification does not exercise rests in this state. *)
Idle == [pc |-> "idle"]

Max(a, b) == IF a >= b THEN a ELSE b

Min(a, b) == IF a <= b THEN a ELSE b

(***************************************************************************)
(* Coordinate codec (src/src/utils/excelCoordinates.ts)                    *)
(***************************************************************************)

Letters ==
  << "A", "B", "C", "D", "E", "F", "G", "H", "I", "J", "K", "L", "M",
     "N", "O", "P", "Q", "R", "S", "T", "U", "V", "W", "X", "Y", "Z" >>

Digits == << "0", "1", "2", "3", "4", "5", "6", "7", "8", "9" >>

IsLetter(ch) == \E i \in 1..26 : Letters[i] = ch

IsDigit(ch) == \E i \in 1..10 : Digits[i] = ch

(* charCodeAt(i) - 64 of an upper-case letter *)
LetterValue(ch) == CHOOSE i \in 1..26 : Letters[i] = ch

DigitValue(ch) == (CHOOSE i \in 1..10 : Digits[i] = ch) - 1

(* `${n}` of a non-negative integer *)
RECURSIVE DecimalChars(_)
DecimalChars(n) ==
  IF n < 10 THEN << Digits[n + 1] >>
  ELSE DecimalChars(n \div 10) \o << Digits[(n % 10) + 1] >>

(* `${n}` of an integer: a minus sign, then the decimal digits *)
NumberChars(n) ==
  IF n < 0 THEN << "-" >> \o DecimalChars(-n) ELSE DecimalChars(n)

(* the while loop of coordsToAddress: letters are prepended, least
   significant first *)
RECURSIVE ColLetters(_, _)
ColLetters(tempCol, colLetter) ==
  IF tempCol > 0
  THEN LET remainder == (tempCol - 1) % 26
       IN ColLetters((tempCol - 1) \div 26,
                     << Letters[remainder + 1] >> \o colLetter)
  ELSE colLetter

(* the same loop with the remainder taken of tempCol instead of tempCol-1 *)
RECURSIVE ColLettersOffByOne(_, _)
ColLettersOffByOne(tempCol, colLetter) ==
  IF tempCol > 0
  THEN LET remainder == tempCol % 26
       IN ColLettersOffByOne((tempCol - 1) \div 26,
                             << Letters[remainder + 1] >> \o colLetter)
  ELSE colLetter

coordsToAddressOffByOne(row, col) ==
  ColLettersOffByOne(col, << >>) \o NumberChars(row)

(* coordsToAddress never throws: it returns a string for every input *)
coordsToAddress(row, col) == ColLetters(col, << >>) \o NumberChars(row)

(* length of the longest prefix of s whose characters satisfy the class *)
RECURSIVE LetterPrefix(_)
LetterPrefix(s) ==
  IF s # << >> /\ IsLetter(Head(s)) THEN 1 + LetterPrefix(Tail(s)) ELSE 0

AllDigits(s) == \A i \in 1..Len(s) : IsDigit(s[i])

(* parseInt of a string of decimal digits *)
RECURSIVE ParseInt(_, _)
ParseInt(s, acc) ==
  IF s = << >> THEN acc ELSE ParseInt(Tail(s), acc * 10 + DigitValue(Head(s)))

RECURSIVE ColValue(_, _)
ColValue(s, col) ==
  IF s = << >> THEN col ELSE ColValue(Tail(s), col * 26 + LetterValue(Head(s)))

CoordsError == [ok |-> FALSE, row |-> 0, col |-> 0]

RECURSIVE DigitPrefix(_)
DigitPrefix(s) ==
  IF s # << >> /\ IsDigit(Head(s)) THEN 1 + DigitPrefix(Tail(s)) ELSE 0

(* the match without the end anchor: /^([A-Z]+)(\d+)/ *)
cellAddressToCoordsUnanchored(address) ==
  LET k == LetterPrefix(address)
      d == DigitPrefix(SubSeq(address, k + 1, Len(address)))
  IN IF k >= 1 /\ d >= 1
     THEN [ok |-> TRUE, row |-> ParseInt(SubSeq(address, k + 1, k + d), 0),
           col |-> ColValue(SubSeq(address, 1, k), 0)]
     ELSE CoordsError

(* address.match(/^([A-Z]+)(\d+)$/), then parseInt and the base-26 loop;
   ok = FALSE stands for the thrown Error("Invalid cell address") *)
cellAddressToCoords(address) ==
  LET k == LetterPrefix(address)
      colLetters == SubSeq(address, 1, k)
      rowDigits == SubSeq(address, k + 1, Len(address))
  IN IF k >= 1 /\ Len(rowDigits) >= 1 /\ AllDigits(rowDigits)
     THEN [ok |-> TRUE, row |-> ParseInt(rowDigits, 0),
           col |-> ColValue(colLetters, 0)]
     ELSE CoordsError

(* ref.split(':') *)
RECURSIVE SplitColon(_, _, _)
SplitColon(s, cur, parts) ==
  IF s = << >> THEN Append(parts, cur)
  ELSE IF Head(s) = ":" THEN SplitColon(Tail(s), << >>, Append(parts, cur))
  ELSE SplitColon(Tail(s), Append(cur, Head(s)), parts)

RangeError ==
  [ok |-> FALSE, startRow |-> 0, startCol |-> 0, endRow |-> 0, endCol |-> 0]

(* the range of the first part alone *)
parseCellRangeStartOnly(ref) ==
  LET parts == SplitColon(ref, << >>, << >>)
      start == cellAddressToCoords(parts[1])
  IN IF start.ok
     THEN [ok |-> TRUE, startRow |-> start.row, startCol |-> start.col,
           endRow |-> start.row, endCol |-> start.col]
     ELSE RangeError

(* parseCellRange: the exception of either cellAddressToCoords call
   propagates (ok = FALSE) *)
parseCellRange(ref) ==
  LET parts == SplitColon(ref, << >>, << >>)
      start == cellAddressToCoords(parts[1])
      end == IF Len(parts) > 1 THEN cellAddressToCoords(parts[2]) ELSE start
  IN IF start.ok /\ end.ok
     THEN [ok |-> TRUE, startRow |-> start.row, startCol |-> start.col,
           endRow |-> end.row, endCol |-> end.col]
     ELSE RangeError

(* ---- the codec driven on bounded inputs ---- *)

(* rows and columns -MinCoord..MaxSmallCoord, and the values around the
   places where the number of digits or letters changes *)
MaxSmallCoord == 30

MinCoord == 2

CodecRows ==
  ((0 - MinCoord)..MaxSmallCoord) \cup {99, 100, 101, 1000, 65536, 1048575, 1048576}

CodecCols ==
  ((0 - MinCoord)..MaxSmallCoord) \cup
  {52, 53, 676, 677, 702, 703, 704, 1378, 1379, 16383, 16384}

NoAddress == << >>

CodecInit ==
  /\ lookup = Idle /\ md = Idle /\ sheet = Idle /\ wb = Idle
  /\ \E row \in CodecRows, col \in CodecCols :
       codec = [pc |-> "input", row |-> row, col |-> col, threw |-> FALSE,
                address |-> NoAddress, back |-> CoordsError]

(* a caller encodes the pair; coordsToAddress has no throw statement and
   calls nothing that throws, so the call always returns *)
ToAddress ==
  /\ codec.pc = "input"
  /\ codec' = [codec EXCEPT !.pc = "encoded", !.threw = FALSE,
                            !.address = coordsToAddress(codec.row, codec.col)]
  /\ UNCHANGED <<lookup, md, sheet, wb>>

(* a caller decodes the address it got *)
FromAddress ==
  /\ codec.pc = "encoded"
  /\ codec' = [codec EXCEPT !.pc = "decoded",
                            !.back = cellAddressToCoords(codec.address)]
  /\ UNCHANGED <<lookup, md, sheet, wb>>

CodecNext == ToAddress \/ FromAddress

SpecCodec == CodecInit /\ [][CodecNext]_vars

(* C5: toAddress(row, col) fails with an InvalidCoordinate error whenever
   row <= 0 or col <= 0; it never returns an address string for a
   non-positive row or column. *)
C5_ToAddressRejectsNonPositive ==
  (codec.pc = "encoded" /\ (codec.row <= 0 \/ codec.col <= 0)) => codec.threw

(* C7: for every row in 1..1048576 and col in 1..16384,
   fromAddress(toAddress(row, col)) = (row, col). *)
C7_RoundTrip ==
  (codec.pc = "decoded" /\ codec.row \in 1..1048576 /\ codec.col \in 1..16384)
    => codec.back = [ok |-> TRUE, row |-> codec.row, col |-> codec.col]

(* the last cell of a sheet, XFD1048576, has made the round trip *)
C7_Witness ==
  /\ codec.pc = "decoded"
  /\ codec.row = 1048576 /\ codec.col = 16384
  /\ codec.address = << "X", "F", "D", "1", "0", "4", "8", "5", "7", "6" >>
  /\ codec.back.ok

(***************************************************************************)
(* Cell values (src/src/xlsxParser.ts, CellData.value)                     *)
(***************************************************************************)

(* string | number | boolean | null, tagged; every value has the same
   fields so that any two can be compared *)
Null == [t |-> "null", s |-> "", n |-> 0]

Str(s) == [t |-> "str", s |-> s, n |-> 0]

Num(n) == [t |-> "num", s |-> "", n |-> n]

Bool(b) == [t |-> "bool", s |-> "", n |-> IF b THEN 1 ELSE 0]

(* the value of a property an object does not have *)
Undefined == [t |-> "undefined", s |-> "", n |-> 0]

(* a Date object, n days after 1900-01-01; String(date) is modelled by the
   text "Date n" *)
DateValue(n) == [t |-> "date", s |-> "", n |-> n]

(* an array of JavaScript values *)
Array(e) == [t |-> "array", s |-> "", n |-> 0, e |-> e]

(* an object cell value, by the five properties extractComplexCellValue
   reads (interface CellComplexValue); any other property of the object,
   such as error or sharedFormula, is never read *)
CellObject(formula, result, text, richText, hyperlink) ==
  [t |-> "object", s |-> "", n |-> 0, formula |-> formula, result |-> result,
   text |-> text, richText |-> richText, hyperlink |-> hyperlink]

(* a numeric cell together with its number format cell.numFmt *)
FormattedNumber(n, numFmt) ==
  [t |-> "num", s |-> "", n |-> n, numFmt |-> numFmt]

(* object.name, undefined on a Date and on an object without the property *)
Property(v, name) == IF v.t = "object" THEN v[name] ELSE Undefined

(* JavaScript truthiness, as tested by `value || x` and `!value` *)
Truthy(v) ==
  CASE v.t = "null" -> FALSE
    [] v.t = "undefined" -> FALSE
    [] v.t = "str" -> v.s # ""
    [] v.t = "num" -> v.n # 0
    [] v.t = "bool" -> v.n = 1
    [] v.t \in {"date", "object", "array"} -> TRUE

(* JavaScript String(value) *)
String(v) ==
  CASE v.t = "null" -> "null"
    [] v.t = "undefined" -> "undefined"
    [] v.t = "str" -> v.s
    [] v.t = "num" -> ToString(v.n)
    [] v.t = "bool" -> IF v.n = 1 THEN "true" ELSE "false"
    [] v.t = "date" -> "Date " \o ToString(v.n)
    [] v.t = "object" -> "[object Object]"

(***************************************************************************)
(* Merged-cell index (src/src/xlsxJsonConverter.ts)                        *)
(***************************************************************************)

(* a MergedCellRange with the spans extractMergedCells computes *)
MergedCellRange(startRow, startCol, endRow, endCol, value) ==
  [startRow |-> startRow, startCol |-> startCol,
   endRow |-> endRow, endCol |-> endCol, value |-> value,
   colSpan |-> endCol - startCol + 1, rowSpan |-> endRow - startRow + 1]

(* index.get(row)!.push(merge), after index.set(row, []) for a new row *)
IndexPush(index, row, merge) ==
  IF row \in DOMAIN index
  THEN [index EXCEPT ![row] = Append(@, merge)]
  ELSE index @@ (row :> << merge >>)

(* the same step with the merge put in front of the row's bucket *)
IndexPushFront(index, row, merge) ==
  IF row \in DOMAIN index
  THEN [index EXCEPT ![row] = << merge >> \o @]
  ELSE index @@ (row :> << merge >>)

(* the inner loop: for (row = merge.startRow; row <= merge.endRow; row++) *)
RECURSIVE IndexMergeRows(_, _, _)
IndexMergeRows(index, merge, row) ==
  IF row <= merge.endRow
  THEN IndexMergeRows(IndexPush(index, row, merge), merge, row + 1)
  ELSE index

(* the inner loop stopping one row early: row < merge.endRow *)
RECURSIVE IndexMergeRowsShort(_, _, _)
IndexMergeRowsShort(index, merge, row) ==
  IF row < merge.endRow
  THEN IndexMergeRowsShort(IndexPush(index, row, merge), merge, row + 1)
  ELSE index

RECURSIVE IndexMergeRowsFront(_, _, _)
IndexMergeRowsFront(index, merge, row) ==
  IF row <= merge.endRow
  THEN IndexMergeRowsFront(IndexPushFront(index, row, merge), merge, row + 1)
  ELSE index

(* the outer loop: for (const merge of mergedHeaders) *)
RECURSIVE IndexMerges(_, _, _)
IndexMerges(index, mergedHeaders, i) ==
  IF i <= Len(mergedHeaders)
  THEN LET merge == mergedHeaders[i]
       IN IndexMerges(IndexMergeRows(index, merge, merge.startRow),
                      mergedHeaders, i + 1)
  ELSE index

RECURSIVE IndexMergesShort(_, _, _)
IndexMergesShort(index, mergedHeaders, i) ==
  IF i <= Len(mergedHeaders)
  THEN LET merge == mergedHeaders[i]
       IN IndexMergesShort(IndexMergeRowsShort(index, merge, merge.startRow),
                           mergedHeaders, i + 1)
  ELSE index

RECURSIVE IndexMergesFront(_, _, _)
IndexMergesFront(index, mergedHeaders, i) ==
  IF i <= Len(mergedHeaders)
  THEN LET merge == mergedHeaders[i]
       IN IndexMergesFront(IndexMergeRowsFront(index, merge, merge.startRow),
                           mergedHeaders, i + 1)
  ELSE index

(* new Map<number, MergedCellRange[]>() *)
EmptyIndex == << >>

buildMergeIndexShort(mergedHeaders) == IndexMergesShort(EmptyIndex, mergedHeaders, 1)

buildMergeIndexFront(mergedHeaders) == IndexMergesFront(EmptyIndex, mergedHeaders, 1)

(* buildMergeIndex: a map from each row a merge covers to the merges covering
   it, in the order of mergedHeaders *)
buildMergeIndex(mergedHeaders) == IndexMerges(EmptyIndex, mergedHeaders, 1)

NoMerge == MergedCellRange(0, 0, 0, 0, Null)

NotFound == [found |-> FALSE, merge |-> NoMerge]

(* Array.prototype.find: the first element satisfying the test, or undefined *)
RECURSIVE FindInRow(_, _, _)
FindInRow(rowMerges, col, i) ==
  IF i > Len(rowMerges) THEN NotFound
  ELSE IF col >= rowMerges[i].startCol /\ col <= rowMerges[i].endCol
       THEN [found |-> TRUE, merge |-> rowMerges[i]]
       ELSE FindInRow(rowMerges, col, i + 1)

(* the lookup of buildHeaderNodeForColumn:
   (mergeIndex.get(row) || []).find(merge => col >= startCol && col <= endCol) *)
findMergedCell(mergeIndex, row, col) ==
  LET rowMerges == IF row \in DOMAIN mergeIndex THEN mergeIndex[row] ELSE << >>
  IN FindInRow(rowMerges, col, 1)

(* ---- the index driven on bounded merge lists ---- *)

(* merges lie in rows 1..LookupRows and columns 1..LookupCols; a list
   registers at most MaxLookupMerges of them; queries range one cell beyond
   on every side *)
LookupRows == 2

LookupCols == 3

MaxLookupMerges == 2

LookupRects ==
  { <<sr, sc, er, ec>> \in (1..LookupRows) \X (1..LookupCols) \X
                           (1..LookupRows) \X (1..LookupCols) :
      sr <= er /\ sc <= ec }

(* the i-th registered merge carries the anchor value "m<i>" *)
RECURSIVE LookupMergeLists(_)
LookupMergeLists(n) ==
  IF n = 0 THEN { << >> }
  ELSE LET shorter == LookupMergeLists(n - 1)
       IN shorter \cup
          { Append(l, MergedCellRange(q[1], q[2], q[3], q[4],
                                      Str("m" \o ToString(Len(l) + 1)))) :
              l \in { x \in shorter : Len(x) = n - 1 }, q \in LookupRects }

LookupInit ==
  /\ codec = Idle /\ md = Idle /\ sheet = Idle /\ wb = Idle
  /\ \E merges \in LookupMergeLists(MaxLookupMerges) :
       lookup = [pc |-> "registered", merges |-> merges, index |-> EmptyIndex,
                 row |-> 0, col |-> 0, result |-> NotFound]

(* buildHeaderTree builds the index once *)
BuildIndex ==
  /\ lookup.pc = "registered"
  /\ lookup' = [lookup EXCEPT !.pc = "indexed",
                              !.index = buildMergeIndex(lookup.merges)]
  /\ UNCHANGED <<codec, md, sheet, wb>>

(* one query of the index *)
FindMerge ==
  /\ lookup.pc = "indexed"
  /\ \E row \in 0..(LookupRows + 1), col \in 0..(LookupCols + 1) :
       lookup' = [lookup EXCEPT !.pc = "found", !.row = row, !.col = col,
                    !.result = findMergedCell(lookup.index, row, col)]
  /\ UNCHANGED <<codec, md, sheet, wb>>

LookupNext == BuildIndex \/ FindMerge

SpecLookup == LookupInit /\ [][LookupNext]_vars

Contains(merge, row, col) ==
  /\ merge.startRow <= row /\ row <= merge.endRow
  /\ merge.startCol <= col /\ col <= merge.endCol

(* C8: with one registered merge, the lookup at (r, c) returns that merge
   for every (r, c) inside its bounds and none for every (r, c) outside. *)
C8_SingleMergeLookupExact ==
  (lookup.pc = "found" /\ Len(lookup.merges) = 1)
    => lookup.result =
         IF Contains(lookup.merges[1], lookup.row, lookup.col)
         THEN [found |-> TRUE, merge |-> lookup.merges[1]]
         ELSE NotFound

(* a two-row merge was found through its last row *)
C8_Witness ==
  /\ lookup.pc = "found" /\ Len(lookup.merges) = 1
  /\ lookup.merges[1].endRow > lookup.merges[1].startRow
  /\ lookup.row = lookup.merges[1].endRow
  /\ lookup.result.found

(* a linear scan of the merge list in registration order *)
RECURSIVE LinearScan(_, _, _, _)
LinearScan(merges, row, col, i) ==
  IF i > Len(merges) THEN NotFound
  ELSE IF Contains(merges[i], row, col)
       THEN [found |-> TRUE, merge |-> merges[i]]
       ELSE LinearScan(merges, row, col, i + 1)

(* C9: for any list of merges, overlapping ones included, the row-indexed
   lookup at (r, c) returns what a linear scan of the list in registration
   order returns: the first registered merge containing (r, c). *)
C9_IndexEqualsLinearScan ==
  lookup.pc = "found"
    => lookup.result = LinearScan(lookup.merges, lookup.row, lookup.col, 1)

(* two different merges both contain the queried cell and the first won *)
C9_Witness ==
  /\ lookup.pc = "found" /\ Len(lookup.merges) >= 2
  /\ lookup.merges[1].endRow # lookup.merges[2].endRow
  /\ Contains(lookup.merges[1], lookup.row, lookup.col)
  /\ Contains(lookup.merges[2], lookup.row, lookup.col)
  /\ lookup.result = [found |-> TRUE, merge |-> lookup.merges[1]]

(***************************************************************************)
(* Markdown renderer (src/src/utils/excelCoordinates.ts, imported as       *)
(* ./utils/markdown)                                                       *)
(***************************************************************************)

(* Array.prototype.join *)
RECURSIVE JoinStrings(_, _)
JoinStrings(strs, sep) ==
  IF Len(strs) = 0 THEN ""
  ELSE IF Len(strs) = 1 THEN strs[1]
  ELSE strs[1] \o sep \o JoinStrings(Tail(strs), sep)

(* row.map(cell => cell || ' '): the cells of one printed line *)
MarkdownRowCells(row) ==
  [j \in 1..Len(row) |-> IF row[j] = "" THEN " " ELSE row[j]]

(* rows[0].map(() => '---') *)
MarkdownSeparatorCells(row) == [j \in 1..Len(row) |-> "---"]

(* the pushed lines with every data row cut to the width of the header *)
MarkdownLineCellsTruncated(rows) ==
  IF Len(rows) = 0 THEN << >>
  ELSE << MarkdownRowCells(rows[1]), MarkdownSeparatorCells(rows[1]) >> \o
       [i \in 1..(Len(rows) - 1) |->
          MarkdownRowCells(SubSeq(rows[i + 1], 1,
                                  Min(Len(rows[i + 1]), Len(rows[1]))))]

(* the cells of every pushed line, in order: header, separator, data rows;
   colCount is computed by the code and never read *)
MarkdownLineCells(rows) ==
  IF Len(rows) = 0 THEN << >>
  ELSE << MarkdownRowCells(rows[1]), MarkdownSeparatorCells(rows[1]) >> \o
       [i \in 1..(Len(rows) - 1) |-> MarkdownRowCells(rows[i + 1])]

(* '| ' + cells.join(' | ') + ' |' *)
MarkdownLine(cells) == "| " \o JoinStrings(cells, " | ") \o " |"

(* convertTableToMarkdown: lines.join('\n'), '' for no rows *)
convertTableToMarkdown(rows) ==
  LET lineCells == MarkdownLineCells(rows)
  IN JoinStrings([i \in 1..Len(lineCells) |-> MarkdownLine(lineCells[i])], "\n")

(* ---- the renderer driven on bounded string grids ---- *)

MaxMdRows == 3

MaxMdCols == 2

MdCellStrings == {"", "x"}

RECURSIVE SeqsUpTo(_, _)
SeqsUpTo(S, n) ==
  IF n = 0 THEN { << >> }
  ELSE LET shorter == SeqsUpTo(S, n - 1)
       IN shorter \cup
          { Append(l, x) : l \in { y \in shorter : Len(y) = n - 1 }, x \in S }

(* grids with a cell of two lines, as a cell with a line break gives *)
LineBreakGrids ==
  { << << "a\nb" >> >>,
    << << "x" >>, << "a\nb" >> >>,
    << << "a\nb", "x" >>, << "x", "a\nb" >> >> }

MarkdownInit ==
  /\ codec = Idle /\ lookup = Idle /\ sheet = Idle /\ wb = Idle
  /\ \E rows \in SeqsUpTo(SeqsUpTo(MdCellStrings, MaxMdCols), MaxMdRows)
                   \cup LineBreakGrids :
       md = [pc |-> "input", rows |-> rows, lineCells |-> << >>,
             markdown |-> ""]

(* one call of the renderer; lineCells keeps the cells that were joined into
   each line of the returned string *)
RenderMarkdown ==
  /\ md.pc = "input"
  /\ md' = [md EXCEPT !.pc = "rendered",
                      !.lineCells = MarkdownLineCells(md.rows),
                      !.markdown = convertTableToMarkdown(md.rows)]
  /\ UNCHANGED <<codec, lookup, sheet, wb>>

MarkdownNext == RenderMarkdown

SpecMarkdown == MarkdownInit /\ [][MarkdownNext]_vars

(* C4: every row with fewer cells than the header row is rendered with one
   single-space cell for each missing cell, so that its printed line has
   exactly as many cells as the header line. *)
C4_ShortRowsPadded ==
  md.pc = "rendered" =>
    \A i \in 2..Len(md.rows) :
      Len(md.rows[i]) < Len(md.rows[1]) =>
        /\ Len(md.lineCells[i + 1]) = Len(md.lineCells[1])
        /\ \A j \in (Len(md.rows[i]) + 1)..Len(md.rows[1]) :
             md.lineCells[i + 1][j] = " "

(***************************************************************************)
(* Table extraction (src/src/xlsxTableExtractor.ts) and merged-cell        *)
(* extraction (src/src/xlsxParser.ts)                                      *)
(*                                                                         *)
(* A worksheet is [dimensions, cells, merges]: the used range ExcelJS      *)
(* reports (all zero for a sheet without cells), the value of every cell   *)
(* of the used range, and model.merges, the merge references as strings.   *)
(***************************************************************************)

(* worksheet.getCell(row, col).value; a cell without a value holds null *)
getCell(worksheet, row, col) ==
  IF <<row, col>> \in DOMAIN worksheet.cells
  THEN worksheet.cells[<<row, col>>]
  ELSE Null

(* numFmt.includes('d') || numFmt.includes('m') || numFmt.includes('y') *)
isDateFormat(numFmt) ==
  \E i \in 1..Len(numFmt) : SubSeq(numFmt, i, i) \in {"d", "m", "y"}

(* excelDateToJSDate: the Date daysOffset days after 1900-01-01 *)
excelDateToJSDate(excelDate) ==
  DateValue(IF excelDate > 59 THEN excelDate - 2 ELSE excelDate - 1)

(* extractNumberCellValue *)
extractNumberCellValue(cell) ==
  LET numFmt == IF "numFmt" \in DOMAIN cell THEN cell.numFmt ELSE ""
  IN IF numFmt # "" /\ isDateFormat(numFmt)
     THEN [ok |-> TRUE, value |-> excelDateToJSDate(cell.n), type |-> "date",
           formula |-> Undefined]
     ELSE [ok |-> TRUE, value |-> Num(cell.n), type |-> "number",
           formula |-> Undefined]

CellValueThrown ==
  [ok |-> FALSE, value |-> Null, type |-> "empty", formula |-> Undefined]

(* richText.map((rt) => rt.text).join(''): a TypeError when richText has no
   map method or when an element is null or undefined; join writes a null
   or undefined text as the empty string *)
RECURSIVE JoinTexts(_, _)
JoinTexts(runs, i) ==
  IF i > Len(runs) THEN ""
  ELSE LET text == Property(runs[i], "text")
       IN (IF text.t \in {"null", "undefined"} THEN "" ELSE String(text))
            \o JoinTexts(runs, i + 1)

RichTextJoin(richText) ==
  IF richText.t # "array" THEN [ok |-> FALSE, text |-> ""]
  ELSE IF \E i \in 1..Len(richText.e) :
            richText.e[i].t \in {"null", "undefined"}
       THEN [ok |-> FALSE, text |-> ""]
       ELSE [ok |-> TRUE, text |-> JoinTexts(richText.e, 1)]

(* extractComplexCellValue; ok = FALSE stands for a TypeError *)
extractComplexCellValue(cellValue) ==
  IF Truthy(Property(cellValue, "formula"))
  THEN [ok |-> TRUE,
        value |-> IF Property(cellValue, "result").t \in {"null", "undefined"}
                  THEN Null ELSE cellValue.result,
        type |-> "formula", formula |-> cellValue.formula]
  ELSE IF Truthy(Property(cellValue, "text"))
  THEN [ok |-> TRUE, value |-> cellValue.text, type |-> "string",
        formula |-> Undefined]
  ELSE IF Truthy(Property(cellValue, "richText"))
  THEN LET joined == RichTextJoin(cellValue.richText)
       IN IF joined.ok
          THEN [ok |-> TRUE, value |-> Str(joined.text), type |-> "string",
                formula |-> Undefined]
          ELSE CellValueThrown
  ELSE IF Truthy(Property(cellValue, "hyperlink"))
  THEN [ok |-> TRUE,
        value |-> IF Truthy(cellValue.text) THEN cellValue.text
                  ELSE cellValue.hyperlink,
        type |-> "string", formula |-> Undefined]
  ELSE IF cellValue.t = "date"
  THEN [ok |-> TRUE, value |-> cellValue, type |-> "date",
        formula |-> Undefined]
  ELSE [ok |-> TRUE, value |-> Str(String(cellValue)), type |-> "string",
        formula |-> Undefined]

(* extractCellValue, by the shape of cell.value *)
extractCellValue(cellValue) ==
  CASE cellValue.t \in {"null", "undefined"} ->
         [ok |-> TRUE, value |-> Null, type |-> "empty", formula |-> Undefined]
    [] cellValue.t \in {"object", "date", "array"} ->
         extractComplexCellValue(cellValue)
    [] cellValue.t = "str" ->
         [ok |-> TRUE, value |-> cellValue, type |-> "string",
          formula |-> Undefined]
    [] cellValue.t = "bool" ->
         [ok |-> TRUE, value |-> cellValue, type |-> "boolean",
          formula |-> Undefined]
    [] cellValue.t = "num" -> extractNumberCellValue(cellValue)

(* a reading of the cell with row and column exchanged *)
extractCellDataTransposed(worksheet, row, col) ==
  LET extracted == extractCellValue(getCell(worksheet, col, row))
  IN [row |-> col, col |-> row, value |-> extracted.value,
      type |-> extracted.type, formula |-> extracted.formula,
      ok |-> extracted.ok]

(* extractCellData: CellData without the address field; ok = FALSE stands
   for the TypeError of extractCellValue leaving the function *)
extractCellData(worksheet, row, col) ==
  LET extracted == extractCellValue(getCell(worksheet, row, col))
  IN [row |-> row, col |-> col, value |-> extracted.value,
      type |-> extracted.type, formula |-> extracted.formula,
      ok |-> extracted.ok]

(* the value extractMergedCells stores for the top-left cell: the result of
   an object that has one, the value itself otherwise *)
AnchorValue(cellValue) ==
  IF cellValue.t = "undefined" THEN Null
  ELSE IF Property(cellValue, "result").t # "undefined" THEN cellValue.result
  ELSE IF cellValue.t = "num" THEN Num(cellValue.n)
  ELSE cellValue

(* the loop of extractMergedCells; ok = FALSE stands for the exception of
   parseCellRange leaving the function *)
RECURSIVE ExtractMerges(_, _, _)
ExtractMerges(worksheet, i, mergedCells) ==
  IF i > Len(worksheet.merges) THEN [ok |-> TRUE, mergedCells |-> mergedCells]
  ELSE LET range == parseCellRange(worksheet.merges[i])
       IN IF ~range.ok THEN [ok |-> FALSE, mergedCells |-> << >>]
          ELSE ExtractMerges(worksheet, i + 1,
                 Append(mergedCells,
                        MergedCellRange(range.startRow, range.startCol,
                                        range.endRow, range.endCol,
                                        AnchorValue(
                                          getCell(worksheet, range.startRow,
                                                  range.startCol)))))

extractMergedCells(worksheet) == ExtractMerges(worksheet, 1, << >>)

(* a region that always starts at cell A1 *)
detectTableRegionsFromOrigin(worksheet) ==
  LET dimension == worksheet.dimensions
  IN IF dimension.bottom # 0 /\ dimension.right # 0
     THEN << [name |-> "Table1", startRow |-> 1, startCol |-> 1,
              endRow |-> dimension.bottom, endCol |-> dimension.right] >>
     ELSE << >>

(* detectTableRegions: the used range as the only region, none when a
   bound is 0 *)
detectTableRegions(worksheet) ==
  LET dimension == worksheet.dimensions
  IN IF dimension.top # 0 /\ dimension.bottom # 0 /\
        dimension.left # 0 /\ dimension.right # 0
     THEN << [name |-> "Table1",
              startRow |-> dimension.top, startCol |-> dimension.left,
              endRow |-> dimension.bottom, endCol |-> dimension.right] >>
     ELSE << >>

(* a filter on merges that share at least one cell with the region *)
MergeTouchesRegion(merge, region) ==
  /\ merge.startRow <= region.endRow /\ merge.endRow >= region.startRow
  /\ merge.startCol <= region.endCol /\ merge.endCol >= region.startCol

(* the filter of extractTable: merges with all four bounds in the region *)
MergeInRegion(merge, region) ==
  /\ merge.startRow >= region.startRow /\ merge.endRow <= region.endRow
  /\ merge.startCol >= region.startCol /\ merge.endCol <= region.endCol

(* tableMergedCells.some(merge => merge.startRow < region.startRow + 2 &&
   merge.colSpan > 1) *)
HasHierarchicalHeaders(tableMergedCells, region) ==
  \E i \in 1..Len(tableMergedCells) :
    /\ tableMergedCells[i].startRow < region.startRow + 2
    /\ tableMergedCells[i].colSpan > 1

(* String(cell.value || '') *)
StringOrEmpty(value) == IF Truthy(value) THEN String(value) ELSE ""

(* String(cell.value ?? '') *)
StringOfPresent(value) == IF value.t = "null" THEN "" ELSE String(value)

(* the two loops of extractTable over the rows and columns of the region *)
TableData(worksheet, region) ==
  [i \in 1..(region.endRow - region.startRow + 1) |->
    [j \in 1..(region.endCol - region.startCol + 1) |->
      extractCellData(worksheet, region.startRow + i - 1,
                      region.startCol + j - 1)]]

(* the Table record of extractTable over the extracted cells *)
TableOf(data, region, mergedCells) ==
  LET tableMergedCells ==
        SelectSeq(mergedCells, LAMBDA merge : MergeInRegion(merge, region))
      rows ==
        [i \in 1..Len(data) |->
          [j \in 1..Len(data[i]) |-> StringOfPresent(data[i][j].value)]]
  IN [name |-> region.name,
      range |-> coordsToAddress(region.startRow, region.startCol) \o << ":" >>
                \o coordsToAddress(region.endRow, region.endCol),
      columns |-> IF Len(data) > 0
                  THEN [j \in 1..Len(data[1]) |-> StringOrEmpty(data[1][j].value)]
                  ELSE << >>,
      data |-> data,
      mergedHeaders |-> tableMergedCells,
      markdown |-> convertTableToMarkdown(rows),
      hasHierarchicalHeaders |-> HasHierarchicalHeaders(tableMergedCells, region),
      hasJson |-> FALSE,
      json |-> << >>]

(* the table extractTable builds before the optional JSON conversion *)
BuildTable(worksheet, region, mergedCells) ==
  TableOf(TableData(worksheet, region), region, mergedCells)

(***************************************************************************)
(* JSON projection (src/src/xlsxJsonConverter.ts)                          *)
(*                                                                         *)
(* A TableJson value is a node: an object (k = "obj", m its own            *)
(* properties as a function from keys to nodes) or a cell value            *)
(* (k = "leaf").  Every object literal of the converter inherits from      *)
(* Object.prototype, which all calls share; `proto` is the object of the   *)
(* properties added to Object.prototype.  Of the members Object.prototype  *)
(* has from the start, the accessor __proto__ is modelled.                 *)
(***************************************************************************)

Object(m) == [k |-> "obj", m |-> m, v |-> Null]

Leaf(v) == [k |-> "leaf", m |-> << >>, v |-> v]

EmptyObject == Object(<< >>)

HasKey(object, key) == key \in DOMAIN object.m

(* object[key] = node *)
PutKey(object, key, node) ==
  Object(IF HasKey(object, key)
         THEN [object.m EXCEPT ![key] = node]
         ELSE object.m @@ (key :> node))

(* the object reached from node along the keys of loc *)
RECURSIVE GetAt(_, _)
GetAt(node, loc) ==
  IF Len(loc) = 0 THEN node ELSE GetAt(node.m[loc[1]], Tail(loc))

(* node with the property at the end of loc set to written *)
RECURSIVE SetAt(_, _, _)
SetAt(node, loc, written) ==
  IF Len(loc) = 1 THEN PutKey(node, loc[1], written)
  ELSE PutKey(node, loc[1], SetAt(node.m[loc[1]], Tail(loc), written))

(* the objects one call of buildJsonRow can reach: jsonRow and
   Object.prototype; `current` is the object at loc in jsonRow, or in
   Object.prototype when inProto; ok = FALSE stands for a TypeError *)
Heap(jsonRow, proto) ==
  [ok |-> TRUE, row |-> jsonRow, proto |-> proto, inProto |-> FALSE,
   loc |-> << >>]

Current(heap) ==
  GetAt(IF heap.inProto THEN heap.proto ELSE heap.row, heap.loc)

(* target[key] = node on the object `current` *)
Assign(heap, key, node) ==
  IF heap.inProto
  THEN [heap EXCEPT !.proto = SetAt(heap.proto, Append(heap.loc, key), node)]
  ELSE [heap EXCEPT !.row = SetAt(heap.row, Append(heap.loc, key), node)]

(* if (!current[key]) current[key] = {}; current = current[key];
   current[key] is the own property, else the inherited one: for __proto__
   Object.prototype itself (null on Object.prototype), else a property added
   to Object.prototype.  A truthy cell value becomes `current`, and the next
   write to it is a TypeError in strict code; so is the assignment of {} to
   the __proto__ of Object.prototype. *)
StepInto(heap, key) ==
  LET current == Current(heap)
      atPrototype == heap.inProto /\ Len(heap.loc) = 0
      created == [Assign(heap, key, EmptyObject) EXCEPT
                    !.loc = Append(heap.loc, key)]
  IN IF HasKey(current, key)
     THEN IF current.m[key].k = "obj"
          THEN [heap EXCEPT !.loc = Append(heap.loc, key)]
          ELSE IF Truthy(current.m[key].v)
               THEN [heap EXCEPT !.ok = FALSE]
               ELSE created
     ELSE IF key = "__proto__"
     THEN IF atPrototype THEN [heap EXCEPT !.ok = FALSE]
          ELSE [heap EXCEPT !.inProto = TRUE, !.loc = << >>]
     ELSE IF ~atPrototype /\ HasKey(heap.proto, key)
     THEN IF heap.proto.m[key].k = "obj"
          THEN [heap EXCEPT !.inProto = TRUE, !.loc = << key >>]
          ELSE IF Truthy(heap.proto.m[key].v)
               THEN [heap EXCEPT !.ok = FALSE]
               ELSE created
     ELSE created

(* a final write that keeps a value already at the key *)
FinalWriteKeepFirst(heap, finalKey, value) ==
  IF finalKey = "__proto__" \/ HasKey(Current(heap), finalKey) THEN heap
  ELSE Assign(heap, finalKey, Leaf(value))

(* current[finalKey] = cell.value; the setter of __proto__ ignores a value
   that is neither an object nor null, and no own property is written *)
FinalWrite(heap, finalKey, value) ==
  IF finalKey = "__proto__" THEN heap
  ELSE Assign(heap, finalKey, Leaf(value))

(* the walk of buildJsonRow for one column down the rest of the path; the
   last segment (undefined for an empty path) gets the cell value *)
RECURSIVE WritePath(_, _, _)
WritePath(heap, path, value) ==
  IF ~heap.ok THEN heap
  ELSE IF Len(path) = 0 THEN FinalWrite(heap, "undefined", value)
  ELSE IF Len(path) = 1 THEN FinalWrite(heap, path[1], value)
  ELSE WritePath(StepInto(heap, path[1]), Tail(path), value)

(* the column loop of buildJsonRow: i < row.length && i < headerTree.length;
   every column starts at current = jsonRow *)
RECURSIVE JsonRowColumns(_, _, _, _)
JsonRowColumns(heap, row, headerTree, i) ==
  IF i > Len(row) \/ i > Len(headerTree) \/ ~heap.ok THEN heap
  ELSE JsonRowColumns(
         WritePath([heap EXCEPT !.inProto = FALSE, !.loc = << >>],
                   headerTree[i].path, row[i].value),
         row, headerTree, i + 1)

(* buildJsonRow, in a realm whose Object.prototype has the properties of
   proto *)
buildJsonRow(row, headerTree, proto) ==
  JsonRowColumns(Heap(EmptyObject, proto), row, headerTree, 1)

(* table.data[0]?.[0]?.row ?? 1 *)
FirstRowOf(table) ==
  IF Len(table.data) > 0 /\ Len(table.data[1]) > 0
  THEN table.data[1][1].row ELSE 1

(* the loop of detectHeaderDepth over table.mergedHeaders *)
RECURSIVE DeepestMergedRow(_, _, _, _)
DeepestMergedRow(mergedHeaders, firstRow, i, deepestMergedRow) ==
  IF i > Len(mergedHeaders) THEN deepestMergedRow
  ELSE LET merge == mergedHeaders[i]
       IN DeepestMergedRow(mergedHeaders, firstRow, i + 1,
            IF merge.colSpan > 1 /\ merge.startRow <= firstRow + 2
            THEN Max(deepestMergedRow, merge.endRow)
            ELSE deepestMergedRow)

(* the loop without the colSpan test *)
RECURSIVE DeepestMergedRowAnySpan(_, _, _, _)
DeepestMergedRowAnySpan(mergedHeaders, firstRow, i, deepestMergedRow) ==
  IF i > Len(mergedHeaders) THEN deepestMergedRow
  ELSE LET merge == mergedHeaders[i]
       IN DeepestMergedRowAnySpan(mergedHeaders, firstRow, i + 1,
            IF merge.startRow <= firstRow + 2
            THEN Max(deepestMergedRow, merge.endRow)
            ELSE deepestMergedRow)

detectHeaderDepthAnySpan(table) ==
  IF Len(table.data) = 0 THEN 0
  ELSE LET firstRow == FirstRowOf(table)
           deepestMergedRow ==
             DeepestMergedRowAnySpan(table.mergedHeaders, firstRow, 1, firstRow)
           headerDepth == IF deepestMergedRow > firstRow
                          THEN deepestMergedRow - firstRow + 1 ELSE 1
       IN Min(headerDepth, Len(table.data) - 1)

(* the same inference without the final Math.min *)
detectHeaderDepthUnclamped(table) ==
  IF Len(table.data) = 0 THEN 0
  ELSE LET firstRow == FirstRowOf(table)
           deepestMergedRow ==
             DeepestMergedRow(table.mergedHeaders, firstRow, 1, firstRow)
       IN IF deepestMergedRow > firstRow
          THEN deepestMergedRow - firstRow + 1 ELSE 1

(* detectHeaderDepth *)
detectHeaderDepth(table) ==
  IF Len(table.data) = 0 THEN 0
  ELSE LET firstRow == FirstRowOf(table)
           deepestMergedRow ==
             DeepestMergedRow(table.mergedHeaders, firstRow, 1, firstRow)
           headerDepth == IF deepestMergedRow > firstRow
                          THEN deepestMergedRow - firstRow + 1 ELSE 1
       IN Min(headerDepth, Len(table.data) - 1)

(* one level that reads the cell and ignores the merge index *)
HeaderSegmentNoMerge(col, table, level, mergeIndex) ==
  LET rowData == table.data[level + 1]
      firstColInRow == IF Len(rowData) > 0 THEN rowData[1].col ELSE 1
      colIndex == col - firstColInRow
  IN IF colIndex + 1 \in 1..Len(rowData)
     THEN StringOrEmpty(rowData[colIndex + 1].value)
     ELSE ""

(* one level of buildHeaderNodeForColumn: the anchor value of the merge
   found at (row, col), else the value of the cell of that row at
   col - firstColInRow, each as String(value || '') *)
HeaderSegment(col, table, level, mergeIndex) ==
  LET row == FirstRowOf(table) + level
      rowData == table.data[level + 1]
      mergedCell == findMergedCell(mergeIndex, row, col)
      firstColInRow == IF Len(rowData) > 0 THEN rowData[1].col ELSE 1
      colIndex == col - firstColInRow
  IN IF mergedCell.found THEN StringOrEmpty(mergedCell.merge.value)
     ELSE IF colIndex + 1 \in 1..Len(rowData)
          THEN StringOrEmpty(rowData[colIndex + 1].value)
          ELSE ""

(* paths of uneven length: the path of a column with an even number stops
   after its first segment *)
buildHeaderNodeForColumnRagged(col, table, headerDepth, mergeIndex) ==
  [column |-> col,
   path |-> [l \in 1..(IF col % 2 = 0 THEN Min(1, headerDepth)
                       ELSE headerDepth) |->
              HeaderSegment(col, table, l - 1, mergeIndex)]]

(* buildHeaderNodeForColumn; finalHeader, which nothing reads, is left out *)
buildHeaderNodeForColumn(col, table, headerDepth, mergeIndex) ==
  [column |-> col,
   path |-> [l \in 1..headerDepth |->
              HeaderSegment(col, table, l - 1, mergeIndex)]]

(* a header tree built without the merges of the table *)
buildHeaderTreeWithoutMerges(table, headerDepth) ==
  LET mergeIndex == buildMergeIndex(<< >>)
  IN [colIdx \in 1..Len(table.data[1]) |->
       buildHeaderNodeForColumn(table.data[1][colIdx].col, table,
                                headerDepth, mergeIndex)]

(* buildHeaderTree: one node per column of the first row *)
buildHeaderTree(table, headerDepth) ==
  LET mergeIndex == buildMergeIndex(table.mergedHeaders)
  IN [colIdx \in 1..Len(table.data[1]) |->
       buildHeaderNodeForColumn(table.data[1][colIdx].col, table,
                                headerDepth, mergeIndex)]

JsonThrown == [ok |-> FALSE, rows |-> << >>, proto |-> EmptyObject]

(* the row loop of convertNestedTable: rowIdx from headerDepth to the last
   row, jsonRows.push(buildJsonRow(row, headerTree)) *)
RECURSIVE NestedRows(_, _, _, _, _)
NestedRows(data, headerTree, rowIdx, jsonRows, proto) ==
  IF rowIdx > Len(data)
  THEN [ok |-> TRUE, rows |-> jsonRows, proto |-> proto]
  ELSE LET built == buildJsonRow(data[rowIdx], headerTree, proto)
       IN IF ~built.ok
          THEN [ok |-> FALSE, rows |-> << >>, proto |-> built.proto]
          ELSE NestedRows(data, headerTree, rowIdx + 1,
                          Append(jsonRows, built.row), built.proto)

(* convertNestedTable; data[0].length of a table without rows is a
   TypeError *)
convertNestedTable(table) ==
  IF Len(table.data) = 0 THEN JsonThrown
  ELSE LET headerDepth == detectHeaderDepth(table)
       IN NestedRows(table.data, buildHeaderTree(table, headerDepth),
                     headerDepth + 1, << >>, EmptyObject)

(* `Column${n}` *)
ColumnLabel(n) == "Column" \o ToString(n)

(* the inner loop of convertFlatTable: jsonRow[header] = row[j].value; the
   setter of __proto__ ignores a value that is neither an object nor null *)
RECURSIVE FlatRowColumns(_, _, _, _)
FlatRowColumns(jsonRow, row, headers, j) ==
  IF j > Len(row) THEN jsonRow
  ELSE LET header == IF j <= Len(headers) /\ headers[j] # ""
                     THEN headers[j] ELSE ColumnLabel(j)
       IN FlatRowColumns(IF header = "__proto__" THEN jsonRow
                         ELSE PutKey(jsonRow, header, Leaf(row[j].value)),
                         row, headers, j + 1)

(* convertFlatTable *)
convertFlatTable(table) ==
  LET data == table.data
  IN IF Len(data) < 2
     THEN [ok |-> TRUE, rows |-> << >>, proto |-> EmptyObject]
     ELSE LET headers ==
                [j \in 1..Len(data[1]) |->
                  IF Truthy(data[1][j].value) THEN String(data[1][j].value)
                  ELSE ColumnLabel(data[1][j].col)]
          IN [ok |-> TRUE,
              rows |-> [n \in 1..(Len(data) - 1) |->
                         FlatRowColumns(EmptyObject, data[n + 1], headers, 1)],
              proto |-> EmptyObject]

(* the choice made on the merge list alone *)
convertTableToJsonByMerges(table) ==
  IF Len(table.mergedHeaders) = 0
  THEN convertFlatTable(table)
  ELSE convertNestedTable(table)

(* convertTableToJson *)
convertTableToJson(table) ==
  IF ~table.hasHierarchicalHeaders \/ Len(table.mergedHeaders) = 0
  THEN convertFlatTable(table)
  ELSE convertNestedTable(table)

(* the end of extractTable: the json field when options.convertToJson is
   set; ok = FALSE stands for an exception leaving the function, raised by
   the extraction of a cell or by the conversion *)
TableWithJson(table, convertToJson) ==
  LET thrown == \E i \in 1..Len(table.data) :
                  \E j \in 1..Len(table.data[i]) : ~table.data[i][j].ok
  IN IF thrown THEN [ok |-> FALSE, table |-> table, proto |-> EmptyObject]
     ELSE IF convertToJson
     THEN LET json == convertTableToJson(table)
          IN [ok |-> json.ok,
              table |-> [table EXCEPT !.hasJson = TRUE, !.json = json.rows],
              proto |-> json.proto]
     ELSE [ok |-> TRUE, table |-> table, proto |-> EmptyObject]

(* extractTable: the table, with json when options.convertToJson is set *)
extractTable(worksheet, region, mergedCells, convertToJson) ==
  TableWithJson(BuildTable(worksheet, region, mergedCells), convertToJson)

(* the tables of extractTables, of which detectTableRegions gives at most
   one, and the properties their conversion added to Object.prototype *)
TablesOf(extracted) ==
  [ok |-> \A i \in 1..Len(extracted) : extracted[i].ok,
   tables |-> [i \in 1..Len(extracted) |-> extracted[i].table],
   proto |-> IF Len(extracted) = 0 THEN EmptyObject ELSE extracted[1].proto]

(* extractTables: one table per detected region *)
extractTables(worksheet, mergedCells, convertToJson) ==
  LET tableRegions == detectTableRegions(worksheet)
  IN TablesOf([i \in 1..Len(tableRegions) |->
                extractTable(worksheet, tableRegions[i], mergedCells,
                             convertToJson)])

SheetThrown ==
  [ok |-> FALSE, mergedCells |-> << >>, tables |-> << >>,
   proto |-> EmptyObject]

(* the Sheet of processSheet; an exception of extractTables leaves what the
   conversion wrote to Object.prototype before it *)
SheetOf(mergedCells, extracted) ==
  IF ~extracted.ok THEN [SheetThrown EXCEPT !.proto = extracted.proto]
  ELSE [ok |-> TRUE, mergedCells |-> mergedCells,
        tables |-> extracted.tables, proto |-> extracted.proto]

SheetWithMerges(worksheet, merged, convertToJson) ==
  IF ~merged.ok THEN SheetThrown
  ELSE SheetOf(merged.mergedCells,
               extractTables(worksheet, merged.mergedCells, convertToJson))

(* processSheet without the images: merged cells, then tables *)
processSheet(worksheet, convertToJson) ==
  SheetWithMerges(worksheet, extractMergedCells(worksheet), convertToJson)

(***************************************************************************)
(* One worksheet through processSheet, on bounded worksheets               *)
(***************************************************************************)

(* the used range lies in rows 1..SheetRows and in the two columns A and B,
   and starts in row 1 or 2 and column A or B; a sheet declares at most
   MaxSheetMerges merges.  Two columns tell colSpan = 1 from colSpan > 1. *)
SheetRows == 4

MaxSheetMerges == 2

SheetColumns == {1, 2}

(* the merge reference of a rectangle, as ExcelJS writes it: "A1:B2" *)
MergeRef(startRow, startCol, endRow, endCol) ==
  coordsToAddress(startRow, startCol) \o << ":" >> \o
  coordsToAddress(endRow, endCol)

(* merges of at least two cells *)
SheetRects ==
  { q \in (1..SheetRows) \X SheetColumns \X (1..SheetRows) \X SheetColumns :
      /\ q[1] <= q[3] /\ q[2] <= q[4]
      /\ (q[1] < q[3] \/ q[2] < q[4]) }

RectsOverlap(p, q) ==
  ~(p[3] < q[1] \/ q[3] < p[1] \/ p[4] < q[2] \/ q[4] < p[2])

(* lists, in any order, of merges that do not overlap: a sheet cannot merge
   a cell twice *)
RECURSIVE SheetRectLists(_)
SheetRectLists(n) ==
  IF n = 0 THEN { << >> }
  ELSE LET shorter == SheetRectLists(n - 1)
       IN shorter \cup
          { Append(lq[1], lq[2]) :
              lq \in { x \in { y \in shorter : Len(y) = n - 1 } \X SheetRects :
                         \A i \in 1..(n - 1) : ~RectsOverlap(x[1][i], x[2]) } }

CellLabel(row, col) == "r" \o ToString(row) \o "c" \o ToString(col)

LabelledCells(top, left, bottom, right) ==
  [p \in (top..bottom) \X (left..right) |-> Str(CellLabel(p[1], p[2]))]

Worksheet(top, left, bottom, right, cells, merges) ==
  [dimensions |-> [top |-> top, left |-> left, bottom |-> bottom,
                   right |-> right],
   cells |-> cells, merges |-> merges]

EmptySheet == Worksheet(0, 0, 0, 0, << >>, << >>)

GeometrySheets ==
  { Worksheet(top, left, bottom, 2,
              LabelledCells(top, left, bottom, 2),
              [i \in 1..Len(l) |-> MergeRef(l[i][1], l[i][2], l[i][3], l[i][4])]) :
      top \in 1..2, left \in SheetColumns, bottom \in 1..SheetRows,
      l \in SheetRectLists(MaxSheetMerges) }

(* the worked example: three rows of three cells, merges A1:B1 and B2:C2 *)
ExampleSheet ==
  Worksheet(1, 1, 3, 3,
    (<<1, 1>> :> Str("Region")) @@ (<<1, 2>> :> Str("Region")) @@
    (<<1, 3>> :> Str("Total")) @@
    (<<2, 1>> :> Str("Q1")) @@ (<<2, 2>> :> Str("Q2")) @@
    (<<2, 3>> :> Str("Total")) @@
    (<<3, 1>> :> Num(100)) @@ (<<3, 2>> :> Num(200)) @@ (<<3, 3>> :> Num(300)),
    << MergeRef(1, 1, 1, 2), MergeRef(2, 2, 2, 3) >>)

Worksheets ==
  { w \in GeometrySheets : w.dimensions.top <= w.dimensions.bottom }
    \cup {EmptySheet, ExampleSheet}

SheetInit ==
  /\ codec = Idle /\ lookup = Idle /\ md = Idle /\ wb = Idle
  /\ \E worksheet \in Worksheets :
       sheet = [pc |-> "loaded", worksheet |-> worksheet,
                convertToJson |-> FALSE, ok |-> TRUE,
                mergedCells |-> << >>, tables |-> << >>,
                headerDepth |-> 0, headerTree |-> << >>,
                objectPrototype |-> EmptyObject]

(* the sheet record once processSheet has returned or thrown *)
SheetProcessed(convertToJson, result) ==
  [sheet EXCEPT !.pc = "processed",
                !.convertToJson = convertToJson,
                !.ok = result.ok,
                !.mergedCells = result.mergedCells,
                !.tables = result.tables,
                !.objectPrototype = result.proto]

(* processSheet, with or without options.convertToJson *)
ProcessSheet ==
  /\ sheet.pc = "loaded"
  /\ \E convertToJson \in BOOLEAN :
       sheet' = SheetProcessed(convertToJson,
                               processSheet(sheet.worksheet, convertToJson))
  /\ UNCHANGED <<codec, lookup, md, wb>>

(* steps 1 and 2 of convertNestedTable applied to the extracted table *)
BuildHeaders ==
  /\ sheet.pc = "processed" /\ sheet.ok /\ Len(sheet.tables) > 0
  /\ LET headerDepth == detectHeaderDepth(sheet.tables[1])
     IN sheet' = [sheet EXCEPT !.pc = "headers",
                    !.headerDepth = headerDepth,
                    !.headerTree = buildHeaderTree(sheet.tables[1], headerDepth)]
  /\ UNCHANGED <<codec, lookup, md, wb>>

SheetNext == ProcessSheet \/ BuildHeaders

SpecSheet == SheetInit /\ [][SheetNext]_vars

(* the sheet merges with all four bounds inside the used range *)
ContainedMerges ==
  LET d == sheet.worksheet.dimensions
  IN { i \in 1..Len(sheet.mergedCells) :
         /\ d.top <= sheet.mergedCells[i].startRow
         /\ sheet.mergedCells[i].endRow <= d.bottom
         /\ d.left <= sheet.mergedCells[i].startCol
         /\ sheet.mergedCells[i].endCol <= d.right }

TableBuilt == sheet.pc # "loaded" /\ sheet.ok /\ Len(sheet.tables) = 1

(* C1: for every table built by extractTable, hasHierarchicalHeaders is true
   if and only if at least one merge contained in the region has colSpan > 1
   and starts within the first three rows of the region
   (startRow <= region.startRow + 2). *)
C1_HierarchicalIffMergeInFirstThreeRows ==
  TableBuilt =>
    (sheet.tables[1].hasHierarchicalHeaders <=>
      \E i \in ContainedMerges :
        /\ sheet.mergedCells[i].colSpan > 1
        /\ sheet.mergedCells[i].startRow <= sheet.worksheet.dimensions.top + 2)

(* C2: for every table with fewer than 2 rows, convertTableToJson returns an
   empty list and raises no error, under the flat and under the nested
   policy. *)
C2_FewerThanTwoRowsYieldsNoJson ==
  (sheet.pc # "loaded" /\ sheet.convertToJson
     /\ sheet.worksheet.dimensions.top # 0
     /\ sheet.worksheet.dimensions.bottom - sheet.worksheet.dimensions.top + 1 < 2)
    => /\ sheet.ok
       /\ Len(sheet.tables) = 1
       /\ sheet.tables[1].hasJson
       /\ sheet.tables[1].json = << >>

ExampleProcessed ==
  /\ sheet.worksheet = ExampleSheet
  /\ sheet.pc = "headers" /\ sheet.convertToJson

PathsOf(headerTree) == [i \in 1..Len(headerTree) |-> headerTree[i].path]

(* C3 as stated: on the worked example the depth is 2, the header paths are
   A = [Region, Q1], B = [Region, Q2], C = [Total, Total], and the nested
   projection of the data row is
   {Region: {Q1: 100, Q2: 200}, Total: {Total: 300}}. *)
C3_ExampleAsStated ==
  ExampleProcessed =>
    /\ sheet.headerDepth = 2
    /\ PathsOf(sheet.headerTree) =
         << <<"Region", "Q1">>, <<"Region", "Q2">>, <<"Total", "Total">> >>
    /\ sheet.tables[1].json =
         << Object(("Region" :> Object(("Q1" :> Leaf(Num(100))) @@
                                       ("Q2" :> Leaf(Num(200))))) @@
                   ("Total" :> Object("Total" :> Leaf(Num(300))))) >>

(* C3 amended: on the worked example the depth is 2, the header paths are
   A = [Region, Q1], B = [Region, Q2], C = [Total, Q2] (column C of row 2
   lies in the merge B2:C2, whose anchor value is Q2), and the nested
   projection of the data row is
   {Region: {Q1: 100, Q2: 200}, Total: {Q2: 300}}. *)
C3_ExampleAmended ==
  ExampleProcessed =>
    /\ sheet.headerDepth = 2
    /\ PathsOf(sheet.headerTree) =
         << <<"Region", "Q1">>, <<"Region", "Q2">>, <<"Total", "Q2">> >>
    /\ sheet.tables[1].json =
         << Object(("Region" :> Object(("Q1" :> Leaf(Num(100))) @@
                                       ("Q2" :> Leaf(Num(200))))) @@
                   ("Total" :> Object("Q2" :> Leaf(Num(300))))) >>

(* the example went through the nested policy and gave one object *)
C3_Witness ==
  /\ ExampleProcessed
  /\ sheet.tables[1].hasHierarchicalHeaders
  /\ Len(sheet.tables[1].mergedHeaders) = 2
  /\ Len(sheet.tables[1].json) = 1

(* the header candidates of the claim: contained, colSpan > 1, starting in
   the first three rows *)
DepthCandidates ==
  { i \in ContainedMerges :
      /\ sheet.mergedCells[i].colSpan > 1
      /\ sheet.mergedCells[i].startRow <= sheet.worksheet.dimensions.top + 2 }

MaxEndRow(S) ==
  CHOOSE m \in { sheet.mergedCells[i].endRow : i \in S } :
    \A i \in S : sheet.mergedCells[i].endRow <= m

ClaimedDepth ==
  LET firstRow == sheet.worksheet.dimensions.top
      totalRows == sheet.worksheet.dimensions.bottom - firstRow + 1
      unclamped == IF DepthCandidates # {} /\ MaxEndRow(DepthCandidates) > firstRow
                   THEN MaxEndRow(DepthCandidates) - firstRow + 1
                   ELSE 1
  IN IF unclamped <= totalRows - 1 THEN unclamped ELSE totalRows - 1

IsDepthCandidate(merge) ==
  merge.colSpan > 1 /\ merge.startRow <= sheet.worksheet.dimensions.top + 2

(* C10: with C the contained merges with colSpan > 1 and
   startRow <= firstRow + 2 and m the maximum endRow over C, the depth is
   m - firstRow + 1 if C is not empty and m > firstRow, otherwise 1, then
   clamped to at most totalRows - 1; merges with colSpan = 1 and merges with
   startRow > firstRow + 2 never change the result. *)
C10_HeaderDepthInference ==
  sheet.pc = "headers" =>
    /\ sheet.headerDepth = ClaimedDepth
    /\ detectHeaderDepth(
         [sheet.tables[1] EXCEPT
            !.mergedHeaders = SelectSeq(@, IsDepthCandidate)])
       = sheet.headerDepth

(* a column-spanning merge over two rows sets a depth of 2 that the clamp
   leaves alone, while a vertical-only merge reaches further down *)
C10_Witness ==
  /\ sheet.pc = "headers"
  /\ sheet.headerDepth = 2
  /\ Len(sheet.tables[1].data) = 4
  /\ \E i \in DepthCandidates :
       sheet.mergedCells[i].endRow = sheet.worksheet.dimensions.top + 1
  /\ \E i \in ContainedMerges :
       /\ sheet.mergedCells[i].colSpan = 1
       /\ sheet.mergedCells[i].endRow > sheet.worksheet.dimensions.top + 1

(***************************************************************************)
(* parseXlsx over the sheets of a workbook (src/src/xlsxParser.ts)         *)
(***************************************************************************)

MAX_SHEETS == 100

MaxWbSheets == 3

PlainSheet == Worksheet(1, 1, 2, 2, LabelledCells(1, 1, 2, 2), << >>)

MergedSheet ==
  Worksheet(1, 1, 2, 2, LabelledCells(1, 1, 2, 2), << MergeRef(1, 1, 1, 2) >>)

(* a sheet whose merge reference is the whole-column range "A:B", which
   cellAddressToCoords rejects *)
BrokenSheet ==
  Worksheet(1, 1, 2, 2, LabelledCells(1, 1, 2, 2), << << "A", ":", "B" >> >>)

WbSheets == {PlainSheet, MergedSheet, BrokenSheet, EmptySheet}

WbInit ==
  /\ codec = Idle /\ lookup = Idle /\ md = Idle /\ sheet = Idle
  /\ \E worksheets \in SeqsUpTo(WbSheets, MaxWbSheets) :
       wb = [pc |-> "loading", worksheets |-> worksheets,
             convertToJson |-> FALSE, next |-> 1, sheets |-> << >>,
             result |-> << >>]

(* parseXlsx up to the call of processSheetsSequential: the workbook is
   loaded and its sheet count validated *)
LoadWorkbook ==
  /\ wb.pc = "loading"
  /\ \E convertToJson \in BOOLEAN :
       wb' = [wb EXCEPT !.convertToJson = convertToJson,
                !.pc = IF Len(wb.worksheets) > MAX_SHEETS
                       THEN "thrown" ELSE "running"]
  /\ UNCHANGED <<codec, lookup, md, sheet>>

(* one callback of workbook.eachSheet: processSheet and sheets.push.  An
   exception of processSheet leaves eachSheet and processSheetsSequential,
   is caught by parseXlsx and thrown again as "Failed to parse XLSX file";
   the sheets collected so far are dropped with the frame. *)
ProcessNextSheet ==
  /\ wb.pc = "running" /\ wb.next <= Len(wb.worksheets)
  /\ LET done == processSheet(wb.worksheets[wb.next], wb.convertToJson)
     IN IF done.ok
        THEN wb' = [wb EXCEPT !.next = wb.next + 1,
                      !.sheets = Append(wb.sheets,
                                   [index |-> wb.next - 1,
                                    tables |-> done.tables,
                                    mergedCells |-> done.mergedCells])]
        ELSE wb' = [wb EXCEPT !.pc = "thrown", !.sheets = << >>]
  /\ UNCHANGED <<codec, lookup, md, sheet>>

(* return { sheets } *)
ReturnSheets ==
  /\ wb.pc = "running" /\ wb.next > Len(wb.worksheets)
  /\ wb' = [wb EXCEPT !.pc = "returned", !.result = wb.sheets]
  /\ UNCHANGED <<codec, lookup, md, sheet>>

WbNext == LoadWorkbook \/ ProcessNextSheet \/ ReturnSheets

SpecWorkbook == WbInit /\ [][WbNext]_vars

(* C6: a failure raised while processing one sheet is terminal only for
   that call: parseXlsx still returns the tables extracted from all other
   sheets of the workbook. *)
C6_OtherSheetsSurviveFailure ==
  wb.pc \in {"returned", "thrown"} =>
    \A i \in 1..Len(wb.worksheets) :
      LET alone == processSheet(wb.worksheets[i], wb.convertToJson)
      IN alone.ok =>
           \E j \in 1..Len(wb.result) :
             /\ wb.result[j].index = i - 1
             /\ wb.result[j].tables = alone.tables

(***************************************************************************)
(* Claims on the projections of one worksheet                              *)
(***************************************************************************)

TotalRows ==
  sheet.worksheet.dimensions.bottom - sheet.worksheet.dimensions.top + 1

NestedPolicyRan ==
  /\ TableBuilt /\ sheet.convertToJson
  /\ sheet.tables[1].hasHierarchicalHeaders

(* C11: for every table with at least 2 rows and any set of contained
   merges the inferred header depth d satisfies 1 <= d <= totalRows - 1, and
   nested conversion emits exactly totalRows - d >= 1 objects. *)
C11_DepthLeavesADataRow ==
  (sheet.pc = "headers" /\ TotalRows >= 2) =>
    /\ 1 <= sheet.headerDepth /\ sheet.headerDepth <= TotalRows - 1
    /\ NestedPolicyRan =>
         /\ Len(sheet.tables[1].json) = TotalRows - sheet.headerDepth
         /\ Len(sheet.tables[1].json) >= 1

(* a column-spanning merge reaching the last of two rows: the depth of 2
   it asks for is clamped to 1 and one object is emitted *)
C11_Witness ==
  /\ sheet.pc = "headers" /\ NestedPolicyRan
  /\ TotalRows = 2
  /\ \E i \in DepthCandidates :
       sheet.mergedCells[i].endRow = sheet.worksheet.dimensions.bottom
  /\ sheet.headerDepth = 1
  /\ Len(sheet.tables[1].json) = 1

(***************************************************************************)
(* One worksheet through processSheet, on worksheets of varied cell values *)
(***************************************************************************)

(* the used range starts in row 1 and column A or B, is two columns wide
   and has up to MaxValueRows rows.  The first row holds blank, text, 0 and
   false cells; the second row, a header or a data row according to the
   merges, likewise; every further row holds the number 7. *)
MaxValueRows == 3

(* the values a cell of the row may hold, by its position in the region *)
CellValues(row, position) ==
  IF row = 1
  THEN IF position = 1 THEN {Null, Str("x"), Num(0), Bool(FALSE)}
       ELSE {Null, Str("x")}
  ELSE IF row = 2
  THEN IF position = 1 THEN {Null, Str("x")}
       ELSE {Null, Str("x"), Num(0), Bool(FALSE)}
  ELSE {Num(7)}

(* the grids of `bottom` rows, each row a pair of values *)
RECURSIVE ValueGrids(_)
ValueGrids(bottom) ==
  IF bottom = 0 THEN { << >> }
  ELSE { Append(gr[1], gr[2]) :
           gr \in ValueGrids(bottom - 1) \X
                  (CellValues(bottom, 1) \X CellValues(bottom, 2)) }

(* no merge, one merge of at least two cells inside the used range, or the
   two column-spanning merges of rows 1 and 2 *)
ValueMergeLists(left, bottom) ==
  { << >> } \cup
  { << MergeRef(q[1], left + q[2] - 1, q[3], left + q[4] - 1) >> :
      q \in { x \in SheetRects : x[3] <= bottom } } \cup
  IF bottom >= 2
  THEN { << MergeRef(1, left, 1, left + 1), MergeRef(2, left, 2, left + 1) >> }
  ELSE { }

ValueSheets ==
  UNION { { Worksheet(1, left, bottom, left + 1,
                      [p \in (1..bottom) \X (left..(left + 1)) |->
                         grid[p[1]][p[2] - left + 1]],
                      merges) :
              grid \in ValueGrids(bottom),
              merges \in ValueMergeLists(left, bottom) } :
          left \in SheetColumns, bottom \in 1..MaxValueRows }

ValuesInit ==
  /\ codec = Idle /\ lookup = Idle /\ md = Idle /\ wb = Idle
  /\ \E worksheet \in ValueSheets :
       sheet = [pc |-> "loaded", worksheet |-> worksheet,
                convertToJson |-> FALSE, ok |-> TRUE,
                mergedCells |-> << >>, tables |-> << >>,
                headerDepth |-> 0, headerTree |-> << >>,
                objectPrototype |-> EmptyObject]

SpecValues == ValuesInit /\ [][SheetNext]_vars

(* ---- claims on header paths and projections ---- *)

SheetCell(row, col) == getCell(sheet.worksheet, row, col)

(* the string form of a label: empty for a blank or missing value, the
   value's own string form for every present value *)
LabelText(value) ==
  IF value = Null \/ value = Str("") THEN ""
  ELSE CASE value.t = "str" -> value.s
         [] value.t = "num" -> ToString(value.n)
         [] value.t = "bool" -> IF value.n = 1 THEN "true" ELSE "false"

MergesAt(row, col) ==
  { i \in ContainedMerges :
      /\ sheet.mergedCells[i].startRow <= row /\ row <= sheet.mergedCells[i].endRow
      /\ sheet.mergedCells[i].startCol <= col /\ col <= sheet.mergedCells[i].endCol }

FirstMergeAt(row, col) ==
  CHOOSE i \in MergesAt(row, col) : \A j \in MergesAt(row, col) : i <= j

ClaimedSegment(row, col) ==
  IF MergesAt(row, col) # {}
  THEN LabelText(sheet.mergedCells[FirstMergeAt(row, col)].value)
  ELSE LabelText(SheetCell(row, col))

RegionColumns ==
  sheet.worksheet.dimensions.right - sheet.worksheet.dimensions.left + 1

(* C12: for every column c of the region the path has exactly depth
   segments; segment l is the string form of the anchor value of the merge
   found at (firstRow + l, c) if there is one, otherwise the string form of
   the cell value at (firstRow + l, c); a segment is the empty string only
   when that value is blank or missing, so 0 gives "0" and false "false". *)
C12_HeaderPathSegments ==
  sheet.pc = "headers" =>
    /\ Len(sheet.headerTree) = RegionColumns
    /\ \A c \in 1..Len(sheet.headerTree) :
         /\ Len(sheet.headerTree[c].path) = sheet.headerDepth
         /\ \A l \in 1..sheet.headerDepth :
              sheet.headerTree[c].path[l] =
                ClaimedSegment(sheet.worksheet.dimensions.top + l - 1,
                               sheet.worksheet.dimensions.left + c - 1)

FlatPolicyRan ==
  /\ TableBuilt /\ sheet.convertToJson
  /\ ~sheet.tables[1].hasHierarchicalHeaders

(* C13: flat conversion of a table with N >= 2 rows and no hierarchical
   headers yields exactly N - 1 objects, in row order, each with one key per
   column of the region, whatever the header row holds (duplicate and blank
   labels included). *)
C13_FlatRowsAndKeys ==
  (FlatPolicyRan /\ TotalRows >= 2) =>
    /\ Len(sheet.tables[1].json) = TotalRows - 1
    /\ \A n \in 1..Len(sheet.tables[1].json) :
         /\ sheet.tables[1].json[n].k = "obj"
         /\ Cardinality(DOMAIN sheet.tables[1].json[n].m) = RegionColumns
         /\ \A key \in DOMAIN sheet.tables[1].json[n].m :
              \E c \in 1..RegionColumns :
                sheet.tables[1].json[n].m[key] =
                  Leaf(SheetCell(sheet.worksheet.dimensions.top + n,
                                 sheet.worksheet.dimensions.left + c - 1))

(* the label the claim gives the header cell of region column c *)
ClaimedFlatLabel(c) ==
  LET header == SheetCell(sheet.worksheet.dimensions.top,
                          sheet.worksheet.dimensions.left + c - 1)
  IN IF LabelText(header) = "" THEN "Column" \o ToString(c)
     ELSE LabelText(header)

(* C14: in flat conversion a blank header cell in the column at 1-based
   position N of the region gets the label "ColumnN", N counted from the
   region's first column wherever the region starts; a non-blank header
   cell is used literally as the label. *)
C14_FlatLabels ==
  (FlatPolicyRan /\ TotalRows >= 2) =>
    \A n \in 1..Len(sheet.tables[1].json) :
      \A c \in 1..RegionColumns :
        ClaimedFlatLabel(c) \in DOMAIN sheet.tables[1].json[n].m

Missing == [k |-> "missing", m |-> << >>, v |-> Null]

(* what walking the segments of `path` from `node` leads to *)
RECURSIVE ValueAt(_, _)
ValueAt(node, path) ==
  IF path = << >> THEN node
  ELSE IF node.k = "obj" /\ path[1] \in DOMAIN node.m
       THEN ValueAt(node.m[path[1]], Tail(path))
       ELSE Missing

(* the cell of region column c in the row projected as object n *)
DataCell(n, c) ==
  SheetCell(sheet.worksheet.dimensions.top + sheet.headerDepth + n - 1,
            sheet.worksheet.dimensions.left + c - 1)

NestedProjected == sheet.pc = "headers" /\ NestedPolicyRan

(* C15: nested conversion emits one object per region row at index >= depth,
   in row order, and in each object walking the segments of column c's
   header path from the top leads to the cell value of that row in column
   c, for every column c whose path is not the path of a later column. *)
C15_NestedWalkReachesCell ==
  NestedProjected =>
    /\ Len(sheet.tables[1].json) = TotalRows - sheet.headerDepth
    /\ \A n \in 1..Len(sheet.tables[1].json) :
         \A c \in 1..Len(sheet.headerTree) :
           (\A later \in (c + 1)..Len(sheet.headerTree) :
              sheet.headerTree[later].path # sheet.headerTree[c].path)
             => ValueAt(sheet.tables[1].json[n], sheet.headerTree[c].path)
                  = Leaf(DataCell(n, c))

(* the rightmost column with the header path of column c *)
RightmostWithPathOf(c) ==
  CHOOSE r \in c..Len(sheet.headerTree) :
    /\ sheet.headerTree[r].path = sheet.headerTree[c].path
    /\ \A later \in (r + 1)..Len(sheet.headerTree) :
         sheet.headerTree[later].path # sheet.headerTree[c].path

(* node holds value v at the leaf that `path` names; columns sharing the
   empty path share the one leaf of the object *)
LeafHolds(node, path, v) ==
  IF path # << >> THEN ValueAt(node, path) = Leaf(v)
  ELSE /\ node.k = "obj" /\ DOMAIN node.m # {}
       /\ \A key \in DOMAIN node.m : node.m[key] = Leaf(v)

(* C16: when two or more columns have an identical header path, the
   projected row holds at that leaf the cell value of the rightmost such
   column, for every cell value (null, 0 and false included), and no error
   is raised. *)
C16_LastWriteWins ==
  (sheet.pc = "headers" /\ sheet.convertToJson
     /\ Len(sheet.tables) = 1 /\ sheet.tables[1].hasHierarchicalHeaders) =>
    /\ sheet.ok
    /\ \A n \in 1..Len(sheet.tables[1].json) :
         \A c \in 1..Len(sheet.headerTree) :
           RightmostWithPathOf(c) # c
             => LeafHolds(sheet.tables[1].json[n], sheet.headerTree[c].path,
                          DataCell(n, RightmostWithPathOf(c)))

(* two columns under one merged header of depth 1: the left cell holds
   text, the right cell 0, and the leaf holds 0 *)
C16_Witness ==
  /\ NestedProjected /\ sheet.headerDepth = 1
  /\ sheet.headerTree[1].path = sheet.headerTree[2].path
  /\ DataCell(1, 1) = Str("x") /\ DataCell(1, 2) = Num(0)
  /\ ValueAt(sheet.tables[1].json[1], sheet.headerTree[1].path) = Leaf(Num(0))

(* C17: convertTableToJson applies the flat policy exactly when the table's
   hasHierarchicalHeaders is false and the nested policy exactly when it is
   true; for a table built by extractTable the test on an empty merge list
   never changes the choice. *)
C17_PolicyFollowsFlag ==
  (TableBuilt /\ sheet.convertToJson) =>
    /\ sheet.tables[1].hasHierarchicalHeaders
         => Len(sheet.tables[1].mergedHeaders) > 0
    /\ sheet.tables[1].json =
         IF sheet.tables[1].hasHierarchicalHeaders
         THEN convertNestedTable(sheet.tables[1]).rows
         ELSE convertFlatTable(sheet.tables[1]).rows

(* a table with a merge but without hierarchical headers went through the
   flat policy, whose result differs from the nested one *)
C17_Witness ==
  /\ TableBuilt /\ sheet.convertToJson
  /\ ~sheet.tables[1].hasHierarchicalHeaders
  /\ Len(sheet.tables[1].mergedHeaders) > 0
  /\ sheet.tables[1].json = convertFlatTable(sheet.tables[1]).rows
  /\ sheet.tables[1].json # convertNestedTable(sheet.tables[1]).rows

(***************************************************************************)
(* cellAddressToCoords and parseCellRange on bounded strings               *)
(***************************************************************************)

(* every string of up to MaxAddressLen characters over AddressChars is
   parsed as a cell address; every reference of up to MaxRangeParts parts
   from RangeParts, joined by ':', is parsed as a range *)
MaxAddressLen == 4

MaxRangeParts == 3

AddressChars == {"A", "B", "Z", "a", "0", "1", "9", "$"}

RECURSIVE CharStrings(_)
CharStrings(n) ==
  IF n = 0 THEN { << >> }
  ELSE LET shorter == CharStrings(n - 1)
       IN shorter \cup
          { Append(s, ch) : s \in { x \in shorter : Len(x) = n - 1 },
                            ch \in AddressChars }

RangeParts ==
  { << >>, << "A", "1" >>, << "B", "2" >>, << "A", "A", "1", "0" >>,
    << "Z", "0", "9" >>, << "1", "A" >>, << "a", "1" >>, << "A" >>, << "7" >>,
    << "A", "1", " " >> }

RECURSIVE PartLists(_)
PartLists(n) ==
  IF n = 1 THEN { << p >> : p \in RangeParts }
  ELSE LET shorter == PartLists(n - 1)
       IN shorter \cup
          { Append(l, p) : l \in { x \in shorter : Len(x) = n - 1 },
                           p \in RangeParts }

RECURSIVE JoinColon(_)
JoinColon(parts) ==
  IF Len(parts) = 1 THEN parts[1]
  ELSE parts[1] \o << ":" >> \o JoinColon(Tail(parts))

ParseInputs ==
  { << s >> : s \in CharStrings(MaxAddressLen) } \cup PartLists(MaxRangeParts)

ParseInit ==
  /\ lookup = Idle /\ md = Idle /\ sheet = Idle /\ wb = Idle
  /\ \E parts \in ParseInputs :
       codec = [pc |-> "text", parts |-> parts, text |-> JoinColon(parts),
                coords |-> CoordsError, range |-> RangeError]

(* a caller passes the text to cellAddressToCoords *)
ParseAddress ==
  /\ codec.pc = "text"
  /\ codec' = [codec EXCEPT !.pc = "address",
                            !.coords = cellAddressToCoords(codec.text)]
  /\ UNCHANGED <<lookup, md, sheet, wb>>

(* a caller passes the text to parseCellRange *)
ParseRange ==
  /\ codec.pc = "text"
  /\ codec' = [codec EXCEPT !.pc = "range",
                            !.range = parseCellRange(codec.text)]
  /\ UNCHANGED <<lookup, md, sheet, wb>>

ParseNext == ParseAddress \/ ParseRange

SpecParse == ParseInit /\ [][ParseNext]_vars

UpperCase == { Letters[i] : i \in 1..26 }

DecimalDigits == { Digits[i] : i \in 1..10 }

(* text is k letters A-Z followed by digits up to its end *)
MatchesAt(text, k) ==
  /\ 1 <= k /\ k < Len(text)
  /\ \A i \in 1..k : text[i] \in UpperCase
  /\ \A i \in (k + 1)..Len(text) : text[i] \in DecimalDigits

MatchesAddress(text) == \E k \in 1..Len(text) : MatchesAt(text, k)

(* the value of positions from..to of text in the given base, each
   character weighted by its place *)
RECURSIVE PlaceValue(_, _, _, _, _)
PlaceValue(text, from, to, base, digit) ==
  IF from > to THEN 0
  ELSE digit[text[from]] * base ^ (to - from)
       + PlaceValue(text, from + 1, to, base, digit)

LetterNumber == [ch \in UpperCase |-> CHOOSE i \in 1..26 : Letters[i] = ch]

DigitNumber == [ch \in DecimalDigits |-> (CHOOSE i \in 1..10 : Digits[i] = ch) - 1]

(* C18: fromAddress(address) fails exactly when the whole string does not
   match one or more letters A-Z followed by one or more digits; for every
   matching string it returns the row as the decimal value of the digits
   and the column as the base-26 value of the letters (A = 1 ... Z = 26,
   AA = 27). *)
C18_FromAddressMatchesPattern ==
  codec.pc = "address" =>
    /\ codec.coords.ok <=> MatchesAddress(codec.text)
    /\ \A k \in 1..Len(codec.text) :
         MatchesAt(codec.text, k) =>
           /\ codec.coords.row =
                PlaceValue(codec.text, k + 1, Len(codec.text), 10, DigitNumber)
           /\ codec.coords.col =
                PlaceValue(codec.text, 1, k, 26, LetterNumber)

(* "AA10" parsed as row 10, column 27 *)
C18_Witness ==
  /\ codec.pc = "address"
  /\ codec.text = << "A", "A", "1", "0" >>
  /\ codec.coords = [ok |-> TRUE, row |-> 10, col |-> 27]

(* the cell a valid part names *)
PartRow(part) ==
  LET k == CHOOSE k \in 1..Len(part) : MatchesAt(part, k)
  IN PlaceValue(part, k + 1, Len(part), 10, DigitNumber)

PartCol(part) ==
  LET k == CHOOSE k \in 1..Len(part) : MatchesAt(part, k)
  IN PlaceValue(part, 1, k, 26, LetterNumber)

(* C19: parseRange(ref) splits ref on ':'; a single cell reference yields
   the 1x1 bound with start = end = that cell; a two-part reference yields
   start from the first part and end from the second; an invalid cell part
   (the first, or the second when there is one) makes the call fail. *)
C19_ParseRange ==
  codec.pc = "range" =>
    LET parts == codec.parts
        first == parts[1]
    IN /\ (Len(parts) = 1 /\ MatchesAddress(first)) =>
            codec.range = [ok |-> TRUE,
                           startRow |-> PartRow(first), startCol |-> PartCol(first),
                           endRow |-> PartRow(first), endCol |-> PartCol(first)]
       /\ (Len(parts) = 2 /\ MatchesAddress(first) /\ MatchesAddress(parts[2])) =>
            codec.range = [ok |-> TRUE,
                           startRow |-> PartRow(first), startCol |-> PartCol(first),
                           endRow |-> PartRow(parts[2]),
                           endCol |-> PartCol(parts[2])]
       /\ (~MatchesAddress(first)
             \/ (Len(parts) >= 2 /\ ~MatchesAddress(parts[2]))) => ~codec.range.ok

(* "A1:B2" parsed as rows 1..2, columns 1..2 *)
C19_Witness ==
  /\ codec.pc = "range"
  /\ codec.parts = << << "A", "1" >>, << "B", "2" >> >>
  /\ codec.text = << "A", "1", ":", "B", "2" >>
  /\ codec.range = [ok |-> TRUE, startRow |-> 1, startCol |-> 1,
                    endRow |-> 2, endCol |-> 2]

(* ---- claims on the lines of the markdown output ---- *)

(* the positions of the line breaks of a string *)
LineBreaks(s) == { i \in 1..Len(s) : SubSeq(s, i, i) = "\n" }

(* the lines of a string: the pieces between its line breaks *)
LineCount(s) == Cardinality(LineBreaks(s)) + 1

RECURSIVE LineEnd(_, _)
LineEnd(s, from) ==
  IF from > Len(s) \/ SubSeq(s, from, from) = "\n" THEN from - 1
  ELSE LineEnd(s, from + 1)

RECURSIVE LinesFrom(_, _)
LinesFrom(s, from) ==
  LET to == LineEnd(s, from)
  IN IF to >= Len(s) THEN << SubSeq(s, from, to) >>
     ELSE << SubSeq(s, from, to) >> \o LinesFrom(s, to + 2)

RECURSIVE SeparatorCells(_)
SeparatorCells(n) ==
  IF n = 0 THEN "" ELSE IF n = 1 THEN "---"
  ELSE "--- | " \o SeparatorCells(n - 1)

(* C20: for a non-empty grid of R rows the markdown output has exactly
   R + 1 lines: the header line, one separator line holding exactly one
   '---' cell per cell of the header row, then one line per remaining row
   in input order; for an empty grid the output is the empty string. *)
C20_MarkdownLines ==
  md.pc = "rendered" =>
    IF Len(md.rows) = 0 THEN md.markdown = ""
    ELSE LET lines == LinesFrom(md.markdown, 1)
         IN /\ LineCount(md.markdown) = Len(md.rows) + 1
            /\ Len(lines) = Len(md.rows) + 1
            /\ lines[1] = MarkdownLine(MarkdownRowCells(md.rows[1]))
            /\ lines[2] = "| " \o SeparatorCells(Len(md.rows[1])) \o " |"
            /\ \A i \in 2..Len(md.rows) :
                 lines[i + 1] = MarkdownLine(MarkdownRowCells(md.rows[i]))

(* a cell as it is printed: a single space for the empty string *)
PrintedCell(cell) == IF cell = "" THEN " " ELSE cell

NoLineBreakInGrid ==
  \A i \in 1..Len(md.rows) : \A j \in 1..Len(md.rows[i]) :
    LineBreaks(md.rows[i][j]) = {}

(* C21: a row with more cells than the header row is rendered with all of
   its cells, in order, on its line; no cell is truncated and no error is
   raised. *)
C21_WiderRowsKeepAllCells ==
  md.pc = "rendered" =>
    \A i \in 2..Len(md.rows) :
      Len(md.rows[i]) > Len(md.rows[1]) =>
        /\ Len(md.lineCells[i + 1]) = Len(md.rows[i])
        /\ \A j \in 1..Len(md.rows[i]) :
             md.lineCells[i + 1][j] = PrintedCell(md.rows[i][j])
        /\ NoLineBreakInGrid =>
             LinesFrom(md.markdown, 1)[i + 1] =
               "| " \o JoinStrings([j \in 1..Len(md.rows[i]) |->
                                      PrintedCell(md.rows[i][j])], " | ") \o " |"

(* a header of one cell followed by a row of two cells, the second empty *)
C21_Witness ==
  /\ md.pc = "rendered"
  /\ md.rows = << << "x" >>, << "x", "" >> >>
  /\ md.lineCells[3] = << "x", " " >>
  /\ md.markdown = "| x |\n| --- |\n| x |   |"

(* ---- claims on the table extractTable builds ---- *)

(* the elements of seq at the indices in S, in the order of seq *)
RECURSIVE Subsequence(_, _, _)
Subsequence(seq, S, i) ==
  IF i > Len(seq) THEN << >>
  ELSE (IF i \in S THEN << seq[i] >> ELSE << >>) \o Subsequence(seq, S, i + 1)

(* the sheet merges sharing a cell with the used range without lying in it *)
PartlyOverlapping ==
  LET d == sheet.worksheet.dimensions
  IN { i \in 1..Len(sheet.mergedCells) :
         /\ i \notin ContainedMerges
         /\ sheet.mergedCells[i].startRow <= d.bottom
         /\ sheet.mergedCells[i].endRow >= d.top
         /\ sheet.mergedCells[i].startCol <= d.right
         /\ sheet.mergedCells[i].endCol >= d.left }

(* C22: the table's merges are exactly the sheet merges whose four bounds
   all lie inside the region bounds, in their original order; a merge that
   only partly overlaps the region is never included. *)
C22_TableMergesAreContainedMerges ==
  TableBuilt =>
    /\ sheet.tables[1].mergedHeaders =
         Subsequence(sheet.mergedCells, ContainedMerges, 1)
    /\ \A i \in PartlyOverlapping :
         \A k \in 1..Len(sheet.tables[1].mergedHeaders) :
           sheet.tables[1].mergedHeaders[k] # sheet.mergedCells[i]

(* of two sheet merges the first reaches out of the region and is left
   out, the second lies inside and is kept *)
C22_Witness ==
  /\ TableBuilt
  /\ Len(sheet.mergedCells) = 2
  /\ 1 \in PartlyOverlapping /\ 2 \in ContainedMerges
  /\ sheet.tables[1].mergedHeaders = << sheet.mergedCells[2] >>

(* C23: the grid of every extracted table is rectangular: it has
   endRow - startRow + 1 rows, every row has endCol - startCol + 1 cells,
   and the cell at grid position (i, j), counted from 0, is the sheet cell
   (startRow + i, startCol + j). *)
C23_GridIsRectangular ==
  TableBuilt =>
    LET d == sheet.worksheet.dimensions
        data == sheet.tables[1].data
    IN /\ Len(data) = d.bottom - d.top + 1
       /\ \A i \in 1..Len(data) :
            /\ Len(data[i]) = d.right - d.left + 1
            /\ \A j \in 1..Len(data[i]) :
                 /\ data[i][j].row = d.top + (i - 1)
                 /\ data[i][j].col = d.left + (j - 1)
                 /\ data[i][j].value = SheetCell(d.top + (i - 1), d.left + (j - 1))

C23_Witness ==
  /\ TableBuilt
  /\ sheet.worksheet.dimensions.top = 2
  /\ sheet.worksheet.dimensions.left = 1
  /\ sheet.worksheet.dimensions.bottom = 3
  /\ Len(sheet.tables[1].data) = 2
  /\ Len(sheet.tables[1].data[2]) = 2
  /\ sheet.tables[1].data[2][1].value = Str(CellLabel(3, 1))
  /\ sheet.tables[1].data[1][2].value = Str(CellLabel(2, 2))

(* the used range of the sheet has no cell *)
SheetIsEmpty ==
  LET d == sheet.worksheet.dimensions
  IN d.top = 0 \/ d.bottom = 0 \/ d.left = 0 \/ d.right = 0

(* C24: extractTables returns no table for an empty sheet and otherwise
   exactly one table, whose bounds are the occupied bounds of the sheet and
   whose range string is toAddress(top, left), ':' and
   toAddress(bottom, right). *)
C24_OneTableOverOccupiedBounds ==
  sheet.pc # "loaded" =>
    LET d == sheet.worksheet.dimensions
    IN /\ sheet.ok
       /\ IF SheetIsEmpty THEN sheet.tables = << >>
          ELSE /\ Len(sheet.tables) = 1
               /\ sheet.tables[1].range =
                    coordsToAddress(d.top, d.left) \o << ":" >> \o
                    coordsToAddress(d.bottom, d.right)
               /\ Len(sheet.tables[1].data) = d.bottom - d.top + 1
               /\ sheet.tables[1].data[1][1].row = d.top
               /\ sheet.tables[1].data[1][1].col = d.left
               /\ Len(sheet.tables[1].data[1]) = d.right - d.left + 1

C24_Witness ==
  /\ sheet.pc = "processed" /\ sheet.ok
  /\ sheet.worksheet.dimensions =
       [top |-> 2, left |-> 2, bottom |-> 3, right |-> 2]
  /\ Len(sheet.tables) = 1
  /\ sheet.tables[1].range = << "B", "2", ":", "B", "3" >>
  /\ Len(sheet.tables[1].data) = 2

(***************************************************************************)
(* Merge references as text: a sheet whose model.merges holds one          *)
(* reference with its two corners in any order, or a single address        *)
(***************************************************************************)

MaxRefCoord == 3

RefCorners == (1..MaxRefCoord) \X (1..MaxRefCoord)

RefTexts ==
  { coordsToAddress(p[1], p[2]) \o << ":" >> \o coordsToAddress(q[1], q[2]) :
      p \in RefCorners, q \in RefCorners }
    \cup { coordsToAddress(p[1], p[2]) : p \in RefCorners }

RefSheets ==
  { Worksheet(1, 1, MaxRefCoord, MaxRefCoord,
              LabelledCells(1, 1, MaxRefCoord, MaxRefCoord), merges) :
      merges \in { << >> } \cup { << ref >> : ref \in RefTexts } }

RefsInit ==
  /\ codec = Idle /\ lookup = Idle /\ md = Idle /\ wb = Idle
  /\ \E worksheet \in RefSheets :
       sheet = [pc |-> "loaded", worksheet |-> worksheet,
                convertToJson |-> FALSE, ok |-> TRUE,
                mergedCells |-> << >>, tables |-> << >>,
                headerDepth |-> 0, headerTree |-> << >>,
                objectPrototype |-> EmptyObject]

SpecRefs == RefsInit /\ [][SheetNext]_vars

(* C25: every merge range that merge extraction produces from an accepted
   reference has startRow <= endRow and startCol <= endCol, and its spans
   colSpan = endCol - startCol + 1 and rowSpan = endRow - startRow + 1 are
   both at least 1. *)
C25_MergeRangesAreOrdered ==
  (sheet.pc # "loaded" /\ sheet.ok) =>
    \A i \in 1..Len(sheet.mergedCells) :
      LET merge == sheet.mergedCells[i]
      IN /\ merge.startRow <= merge.endRow
         /\ merge.startCol <= merge.endCol
         /\ merge.colSpan = merge.endCol - merge.startCol + 1
         /\ merge.rowSpan = merge.endRow - merge.startRow + 1
         /\ merge.colSpan >= 1
         /\ merge.rowSpan >= 1

(***************************************************************************)
(* Cell value shapes: a sheet of one column, a header cell over one data   *)
(* cell, each of any shape                                                 *)
(***************************************************************************)

FormulaValue(formula, result) ==
  CellObject(Str(formula), result, Undefined, Undefined, Undefined)

(* { sharedFormula, result }: the formula property is absent *)
SharedFormulaValue(result) ==
  CellObject(Undefined, result, Undefined, Undefined, Undefined)

RichTextRun(text) ==
  CellObject(Undefined, Undefined, Str(text), Undefined, Undefined)

RichTextValue(richText) ==
  CellObject(Undefined, Undefined, Undefined, richText, Undefined)

HyperlinkValue(text, hyperlink) ==
  CellObject(Undefined, Undefined, Str(text), Undefined, Str(hyperlink))

(* { error: '#N/A' }: none of the five properties *)
ErrorValue ==
  CellObject(Undefined, Undefined, Undefined, Undefined, Undefined)

CellShapes ==
  { Null, Str("x"), Num(7), Bool(TRUE),
    FormattedNumber(7, "0.00"), FormattedNumber(61, "yyyy-mm-dd"),
    DateValue(3),
    FormulaValue("A1+1", Num(2)), FormulaValue("A1", Undefined),
    FormulaValue("A1/0", ErrorValue), SharedFormulaValue(Num(2)),
    RichTextValue(Array(<< RichTextRun("a"), RichTextRun("b") >>)),
    RichTextValue(Array(<< >>)),
    RichTextValue(Array(<< Null >>)),
    RichTextValue(Str("ab")),
    HyperlinkValue("x", "u"), HyperlinkValue("", "u"),
    ErrorValue }

CellSheets ==
  { Worksheet(1, 1, 2, 1, (<<1, 1>> :> header) @@ (<<2, 1>> :> cell), << >>) :
      header \in CellShapes, cell \in CellShapes }

CellsInit ==
  /\ codec = Idle /\ lookup = Idle /\ md = Idle /\ wb = Idle
  /\ \E worksheet \in CellSheets :
       sheet = [pc |-> "loaded", worksheet |-> worksheet,
                convertToJson |-> FALSE, ok |-> TRUE,
                mergedCells |-> << >>, tables |-> << >>,
                headerDepth |-> 0, headerTree |-> << >>,
                objectPrototype |-> EmptyObject]

SpecCells == CellsInit /\ [][SheetNext]_vars

CellTypes == {"number", "string", "boolean", "date", "formula", "empty"}

(* an object that is no Date and has none of the properties formula, text,
   richText and hyperlink with a truthy value *)
UnrecognizedShape(cellValue) ==
  /\ cellValue.t = "object"
  /\ ~Truthy(cellValue.formula) /\ ~Truthy(cellValue.text)
  /\ ~Truthy(cellValue.richText) /\ ~Truthy(cellValue.hyperlink)

(* C26: cell classification never raises: for a cell value of every shape
   (absent, string, number, boolean, date, formula object, rich text,
   hyperlink, any other object) the cell is extracted with one of the six
   cell types, and a value of unrecognized shape is returned as its string
   form with type String. *)
C26_ClassificationNeverRaises ==
  sheet.pc # "loaded" =>
    /\ sheet.ok
    /\ Len(sheet.tables) = 1
    /\ \A i \in 1..2 :
         LET cell == sheet.tables[1].data[i][1]
         IN /\ cell.type \in CellTypes
            /\ UnrecognizedShape(SheetCell(i, 1)) =>
                 /\ cell.type = "string"
                 /\ cell.value = Str("[object Object]")

(***************************************************************************)
(* Header labels: sheets of two columns whose last row holds the numbers 7 *)
(* and 8 and whose rows above hold labels, one of them the text __proto__; *)
(* any of the header rows may be merged across the two columns             *)
(***************************************************************************)

MaxLabelRows == 3

Labels == {"x", "y", "__proto__"}

(* the label rows of a sheet of `bottom` rows *)
RECURSIVE LabelRows(_)
LabelRows(headerRows) ==
  IF headerRows = 0 THEN { << >> }
  ELSE { Append(rl[1], << Str(rl[2]), Str(rl[3]) >>) :
           rl \in LabelRows(headerRows - 1) \X Labels \X Labels }

(* the merges of whole header rows, from the top, for each set of rows *)
RECURSIVE RowMerges(_, _)
RowMerges(rows, row) ==
  IF row > MaxLabelRows THEN << >>
  ELSE (IF row \in rows THEN << MergeRef(row, 1, row, 2) >> ELSE << >>)
         \o RowMerges(rows, row + 1)

LabelSheets ==
  UNION { { Worksheet(1, 1, bottom, 2,
                      [p \in (1..bottom) \X (1..2) |->
                         IF p[1] = bottom THEN Num(6 + p[2])
                         ELSE labels[p[1]][p[2]]],
                      RowMerges(rows, 1)) :
              labels \in LabelRows(bottom - 1),
              rows \in SUBSET (1..(bottom - 1)) } :
          bottom \in 2..MaxLabelRows }

LabelsInit ==
  /\ codec = Idle /\ lookup = Idle /\ md = Idle /\ wb = Idle
  /\ \E worksheet \in LabelSheets :
       sheet = [pc |-> "loaded", worksheet |-> worksheet,
                convertToJson |-> FALSE, ok |-> TRUE,
                mergedCells |-> << >>, tables |-> << >>,
                headerDepth |-> 0, headerTree |-> << >>,
                objectPrototype |-> EmptyObject]

SpecLabels == LabelsInit /\ [][SheetNext]_vars

(* C27: the JSON projection is a pure transformation: convertTableToJson
   leaves every field of the table as extractTable built it, and building
   the projected rows modifies no state outside the returned result, for
   every header label string: Object.prototype, which every object of the
   program inherits from, has no property added. *)
C27_ProjectionIsPure ==
  (sheet.pc # "loaded" /\ sheet.convertToJson) =>
    /\ sheet.objectPrototype = EmptyObject
    /\ sheet.ok =>
         \A i \in 1..Len(sheet.tables) :
           [sheet.tables[i] EXCEPT !.hasJson = FALSE, !.json = << >>] =
             BuildTable(sheet.worksheet, detectTableRegions(sheet.worksheet)[i],
                        sheet.mergedCells)

(* every value `remaining` levels below node is a cell value and every
   value above that level is a mapping *)
RECURSIVE UniformlyNested(_, _)
UniformlyNested(node, remaining) ==
  /\ node.k = "obj"
  /\ \A key \in DOMAIN node.m :
       IF remaining = 1 THEN node.m[key].k = "leaf"
       ELSE UniformlyNested(node.m[key], remaining - 1)

(* C29: every object produced by nested conversion with header depth
   d >= 1 is uniformly nested: every value at the nesting levels 1 to d - 1
   is a mapping and every value at level d is a cell value. *)
C29_ObjectsAreUniformlyNested ==
  (NestedProjected /\ sheet.headerDepth >= 1) =>
    \A n \in 1..Len(sheet.tables[1].json) :
      UniformlyNested(sheet.tables[1].json[n], sheet.headerDepth)

(* depth 2 over two columns with the first-row labels "x" and blank and
   the merged second-row label "x" *)
C29_Witness ==
  /\ NestedProjected /\ sheet.headerDepth = 2
  /\ Len(sheet.tables[1].json) = 1
  /\ DOMAIN sheet.tables[1].json[1].m = {"", "x"}
  /\ sheet.tables[1].json[1].m["x"] = Object("x" :> Leaf(Num(7)))
  /\ sheet.tables[1].json[1].m[""] = Object("x" :> Leaf(Num(7)))

(* the number of cell values in node *)
RECURSIVE LeafCount(_)
LeafCount(node) ==
  IF node.k = "leaf" THEN 1
  ELSE LET RECURSIVE Sum(_)
           Sum(keys) ==
             IF keys = {} THEN 0
             ELSE LET key == CHOOSE k \in keys : TRUE
                  IN LeafCount(node.m[key]) + Sum(keys \ {key})
       IN Sum(DOMAIN node.m)

DistinctPaths ==
  { sheet.headerTree[c].path : c \in 1..Len(sheet.headerTree) }

(* C30: in every object produced by nested conversion the number of leaf
   values equals the number of distinct header paths among the columns of
   the region; with pairwise distinct paths every column has its leaf, and
   the k columns under one column-spanning merge of a depth-1 header share
   a single leaf. *)
C30_OneLeafPerDistinctPath ==
  NestedProjected =>
    \A n \in 1..Len(sheet.tables[1].json) :
      /\ LeafCount(sheet.tables[1].json[n]) = Cardinality(DistinctPaths)
      /\ Cardinality(DistinctPaths) = RegionColumns =>
           \A c \in 1..RegionColumns :
             ValueAt(sheet.tables[1].json[n], sheet.headerTree[c].path)
               = Leaf(DataCell(n, c))
      /\ \A i \in 1..Len(sheet.tables[1].mergedHeaders) :
           LET merge == sheet.tables[1].mergedHeaders[i]
           IN (sheet.headerDepth = 1 /\ merge.colSpan > 1
                 /\ merge.startRow = sheet.worksheet.dimensions.top)
                => LeafCount(sheet.tables[1].json[n])
                     = RegionColumns - merge.colSpan + 1

(* a depth-1 header merged over both columns: one leaf, the value of the
   right column *)
C30_Witness ==
  /\ NestedProjected /\ sheet.headerDepth = 1
  /\ Len(sheet.tables[1].mergedHeaders) = 1
  /\ sheet.tables[1].mergedHeaders[1].colSpan = 2
  /\ SheetCell(1, sheet.worksheet.dimensions.left + 1) = Null
  /\ DataCell(1, 1) = Str("x") /\ DataCell(1, 2) = Bool(FALSE)
  /\ sheet.tables[1].json[1] = Object("x" :> Leaf(Bool(FALSE)))

(***************************************************************************)
(* parsePptx over the slides of an archive (src/src/parser.ts)             *)
(*                                                                         *)
(* An archive is the list of its slide files in the order of slideFiles;   *)
(* a slide file is missing (zip.file gives null), empty (its text is ''),  *)
(* corrupt (reading it rejects) or holds text.  Every slide with text has  *)
(* a relationships file that names one image and one diagram.              *)
(***************************************************************************)

MaxSlides == 3

SlideKinds == {"missing", "empty", "corrupt", "text"}

SlideXml(i) == "slide" \o ToString(i)

SlideRelationships(i) == << "image" \o ToString(i), "data" \o ToString(i) >>

(* the images extractImages returns for the relationships of a slide *)
SlideImages(relationships) == << relationships[1] >>

(* the diagrams extractDiagrams returns for the relationships of a slide *)
SlideDiagrams(relationships) == << relationships[2] >>

Slide(slideNumber, xml, images, diagrams) ==
  [slideNumber |-> slideNumber, xml |-> xml, images |-> images,
   diagrams |-> diagrams]

(* the loop of processSlidesSequential from index i; ok = FALSE stands for
   a rejected read leaving the function *)
RECURSIVE SequentialSlides(_, _, _)
SequentialSlides(archive, i, slides) ==
  IF i > Len(archive) THEN [ok |-> TRUE, slides |-> slides]
  ELSE IF archive[i] \in {"missing", "empty"}
  THEN SequentialSlides(archive, i + 1, slides)
  ELSE IF archive[i] = "corrupt" THEN [ok |-> FALSE, slides |-> << >>]
  ELSE SequentialSlides(archive, i + 1,
         Append(slides,
                Slide(i, SlideXml(i), SlideImages(SlideRelationships(i)),
                      SlideDiagrams(SlideRelationships(i)))))

processSlidesSequential(archive) == SequentialSlides(archive, 1, << >>)

(* the promise of one call of the callback of slideFiles.map: waiting for
   the slide text ("xml"), for the relationships ("rels"), for the images
   and the diagrams ("parts"), resolved with null ("null") or with a slide
   ("slide"), or rejected *)
SlideTask(pc) ==
  [pc |-> pc, xml |-> "", relationships |-> << >>, images |-> << >>,
   diagrams |-> << >>, imagesRead |-> FALSE, diagramsRead |-> FALSE]

(* the callback up to its first await *)
StartSlideTask(kind) ==
  IF kind = "missing" THEN SlideTask("null") ELSE SlideTask("xml")

(* slides that take the place of the results in the order of the list, each
   numbered by its place among the slides kept *)
RECURSIVE FilterSlidesRenumbered(_, _, _)
FilterSlidesRenumbered(tasks, i, slides) ==
  IF i > Len(tasks) THEN slides
  ELSE FilterSlidesRenumbered(tasks, i + 1,
         IF tasks[i].pc = "slide"
         THEN Append(slides, Slide(Len(slides) + 1, tasks[i].xml,
                                   tasks[i].images, tasks[i].diagrams))
         ELSE slides)

(* slideResults.filter(slide => slide !== null), on the results of
   Promise.all in the order of slideFiles *)
RECURSIVE FilterSlides(_, _, _)
FilterSlides(tasks, i, slides) ==
  IF i > Len(tasks) THEN slides
  ELSE FilterSlides(tasks, i + 1,
         IF tasks[i].pc = "slide"
         THEN Append(slides, Slide(i, tasks[i].xml, tasks[i].images,
                                   tasks[i].diagrams))
         ELSE slides)

PptxInit ==
  /\ codec = Idle /\ lookup = Idle /\ md = Idle /\ sheet = Idle
  /\ \E archive \in SeqsUpTo(SlideKinds, MaxSlides) :
       wb = [pc |-> "loaded", archive |-> archive, parallel |-> FALSE,
             tasks |-> << >>, slides |-> << >>]

(* parsePptx with parallel false or absent: processSlidesSequential runs
   alone, one await after the other *)
ParseSequential ==
  /\ wb.pc = "loaded"
  /\ LET processed == processSlidesSequential(wb.archive)
     IN wb' = [wb EXCEPT !.pc = IF processed.ok THEN "returned" ELSE "thrown",
                         !.slides = processed.slides]
  /\ UNCHANGED <<codec, lookup, md, sheet>>

(* parsePptx with parallel true: slideFiles.map starts every callback, each
   running up to its first await *)
StartParallel ==
  /\ wb.pc = "loaded"
  /\ wb' = [wb EXCEPT !.pc = "running", !.parallel = TRUE,
              !.tasks = [i \in 1..Len(wb.archive) |->
                          StartSlideTask(wb.archive[i])]]
  /\ UNCHANGED <<codec, lookup, md, sheet>>

(* slideFile.async('text') settles for slide i: a rejection, null for an
   empty text, else the call of parseRelationshipsFromPath *)
SlideXmlRead(i) ==
  /\ wb.pc = "running" /\ i <= Len(wb.tasks) /\ wb.tasks[i].pc = "xml"
  /\ wb' = [wb EXCEPT !.tasks[i] =
              IF wb.archive[i] = "corrupt" THEN SlideTask("rejected")
              ELSE IF wb.archive[i] = "empty" THEN SlideTask("null")
              ELSE [SlideTask("rels") EXCEPT !.xml = SlideXml(i)]]
  /\ UNCHANGED <<codec, lookup, md, sheet>>

(* parseRelationshipsFromPath resolves for slide i: extractImages and
   extractDiagrams are both called *)
RelationshipsRead(i) ==
  /\ wb.pc = "running" /\ i <= Len(wb.tasks) /\ wb.tasks[i].pc = "rels"
  /\ wb' = [wb EXCEPT !.tasks[i].pc = "parts",
              !.tasks[i].relationships = SlideRelationships(i)]
  /\ UNCHANGED <<codec, lookup, md, sheet>>

(* the slide of a task whose images and diagrams are both there *)
SlideWhenComplete(task) ==
  IF task.imagesRead /\ task.diagramsRead THEN [task EXCEPT !.pc = "slide"]
  ELSE task

(* extractImages resolves for slide i *)
ImagesRead(i) ==
  /\ wb.pc = "running" /\ i <= Len(wb.tasks) /\ wb.tasks[i].pc = "parts"
  /\ ~wb.tasks[i].imagesRead
  /\ wb' = [wb EXCEPT !.tasks[i] =
              SlideWhenComplete([wb.tasks[i] EXCEPT
                !.images = SlideImages(wb.tasks[i].relationships),
                !.imagesRead = TRUE])]
  /\ UNCHANGED <<codec, lookup, md, sheet>>

(* extractDiagrams resolves for slide i *)
DiagramsRead(i) ==
  /\ wb.pc = "running" /\ i <= Len(wb.tasks) /\ wb.tasks[i].pc = "parts"
  /\ ~wb.tasks[i].diagramsRead
  /\ wb' = [wb EXCEPT !.tasks[i] =
              SlideWhenComplete([wb.tasks[i] EXCEPT
                !.diagrams = SlideDiagrams(wb.tasks[i].relationships),
                !.diagramsRead = TRUE])]
  /\ UNCHANGED <<codec, lookup, md, sheet>>

(* Promise.all(slidePromises) resolves once every promise has: the results
   are filtered and returned *)
ParallelReturn ==
  /\ wb.pc = "running"
  /\ \A i \in 1..Len(wb.tasks) : wb.tasks[i].pc \in {"null", "slide"}
  /\ wb' = [wb EXCEPT !.pc = "returned",
              !.slides = FilterSlides(wb.tasks, 1, << >>)]
  /\ UNCHANGED <<codec, lookup, md, sheet>>

(* Promise.all(slidePromises) rejects as soon as one promise has, whatever
   the others wait for; parsePptx throws *)
ParallelThrow ==
  /\ wb.pc = "running"
  /\ \E i \in 1..Len(wb.tasks) : wb.tasks[i].pc = "rejected"
  /\ wb' = [wb EXCEPT !.pc = "thrown"]
  /\ UNCHANGED <<codec, lookup, md, sheet>>

PptxNext ==
  \/ ParseSequential
  \/ StartParallel
  \/ \E i \in 1..MaxSlides : SlideXmlRead(i)
  \/ \E i \in 1..MaxSlides : RelationshipsRead(i)
  \/ \E i \in 1..MaxSlides : ImagesRead(i)
  \/ \E i \in 1..MaxSlides : DiagramsRead(i)
  \/ ParallelReturn
  \/ ParallelThrow

SpecPptx == PptxInit /\ [][PptxNext]_vars

(* C28: for the same archive parsePptx with parallel true returns the list
   of slides it returns with parallel false, in the same order and with the
   same slideNumber for each slide, under every interleaving of the reads
   of the slides, also when slide files are missing or empty and skipped;
   it throws only where the sequential run throws. *)
C28_ParallelReturnsSequentialSlides ==
  (wb.parallel /\ wb.pc \in {"returned", "thrown"}) =>
    LET processed == processSlidesSequential(wb.archive)
    IN /\ (wb.pc = "returned") = processed.ok
       /\ wb.pc = "returned" => wb.slides = processed.slides

(* three slide files of which the second is empty: the slides returned are
   numbered 1 and 3 *)
C28_Witness ==
  /\ wb.parallel /\ wb.pc = "returned"
  /\ wb.archive = << "text", "empty", "text" >>
  /\ Len(wb.slides) = 2
  /\ wb.slides[1].slideNumber = 1 /\ wb.slides[2].slideNumber = 3
  /\ wb.slides[2].xml = SlideXml(3)

====
